---- MODULE Spec2Model ----
(***************************************************************************)
(* Model of the ShortcutPaste extension: the background initiator          *)
(* (ContentScriptManager, handlePasteFavoriteCommand), the content-script  *)
(* executor (PasteHandler) and the HTML sanitizer.                         *)
(***************************************************************************)
EXTENDS Integers, Sequences, FiniteSets, TLC

\* ------------------------------------------------------------------------
\* Bounds of the model
\* ------------------------------------------------------------------------
MaxItems == 2

\* ------------------------------------------------------------------------
\* Program constants
\* ------------------------------------------------------------------------
DefaultRetries == 3
BackoffUnit == 300
SettleDelay == 200
PingTimeout == 1000
MessageTimeout == 5000

\* ------------------------------------------------------------------------
\* String helpers (JavaScript String.prototype)
\* ------------------------------------------------------------------------
startsWith(s, p) == Len(s) >= Len(p) /\ SubSeq(s, 1, Len(p)) = p

includes(s, p) == \E k \in 1..(Len(s) - Len(p) + 1) : SubSeq(s, k, k + Len(p) - 1) = p

substring(s, from, to) == SubSeq(s, from + 1, to)

substringFrom(s, from) == SubSeq(s, from + 1, Len(s))

\* ------------------------------------------------------------------------
\* State
\* ------------------------------------------------------------------------
VARIABLES
    impl,          \* which ContentScriptManager runs: "sw" (service-worker.ts) or "csm" (content-script-manager.ts)
    pc,            \* position of sendMessageToTab
    i,             \* loop counter of sendMessageToTab
    message,       \* the caller's message
    response,      \* what sendMessageToTab returned ("none" until it returns)
    log,           \* what the initiator did, in order
    cmd,           \* position of handlePasteFavoriteCommand
    clipboardItems,\* the items the command read from storage (a local, dead once the favorite is picked)
    favoriteItem,  \* the favorite item the command picked
    activeTab,     \* the tab the command works on
    cmdResult      \* the value handlePasteFavoriteCommand returned

msgVars == <<impl, pc, i, message, response, log, cmd, clipboardItems, favoriteItem, activeTab, cmdResult>>

VARIABLES
    html,          \* the document parsed from the input of sanitize: the children of doc.body
    sanitized,     \* the value sanitize returned
    safe,          \* the value isSafeHTML returned for it
    resanitized,   \* the value sanitize returned when given its own result
    spc            \* position of the sanitizer run

sanVars == <<html, sanitized, safe, resanitized, spc>>

VARIABLES
    handler,       \* which PasteHandler runs: "main" (content-main.ts) or "safe" (paste-handler.ts)
    elements,      \* the elements of the page, in document order
    activeElement, \* document.activeElement: an index into elements, or NoElement
    original,      \* the page as it was when the request arrived
    ppc,           \* position of the executor
    request,       \* the message the executor received
    insertions,    \* what has been put into the page for this request, in order
    strategies,    \* the strategies pasteToContentEditable has started, in order
    locates,       \* how often pasteContent has located a focusable element
    pasteSuccess,  \* the value pasteContent returned
    reply          \* the response the executor sent ("none" until it answers)

pasteVars == <<handler, elements, activeElement, original, ppc, request, insertions,
               strategies, locates, pasteSuccess, reply>>

VARIABLES
    popupItems,    \* the Popup's items state
    popupFolders,  \* the Popup's folders state
    selectedItem,  \* the Popup's selectedItem state: a copy of an item, or NoSelection
    storedItems,   \* chrome.storage.local under clipboard_items_v3
    storedFolders, \* chrome.storage.local under clipboard_folders_v3
    created,       \* how many ids crypto.randomUUID has handed out to items and folders
    lastOp         \* the last operation of the Popup and whether its save went through

popupVars == <<popupItems, popupFolders, selectedItem, storedItems, storedFolders,
               created, lastOp>>

VARIABLES
    detector,      \* which detectContentType runs: "modal" (CreateClipboardItemModal) or "hook" (useClipboard)
    typed,         \* the content it is given
    detectedType   \* the type it returned ("none" until it has run)

detectVars == <<detector, typed, detectedType>>

VARIABLES
    listeners,     \* how many executor instances listen to runtime.onMessage in the page
    waiting,       \* how many of them have still to handle the message in the page
    inserted,      \* how many insertions the messages handled before have made in the page
    answer         \* the first response sent for the message in the page

tabVars == <<listeners, waiting, inserted, answer>>

VARIABLES
    callPc,        \* where each call of ClipboardStorage stands: "idle", "reading" or "saving"
    callOp,        \* the call: its name and the id of the item it adds or deletes
    callItems,     \* its local items, what its getClipboardItems returned
    effects        \* the ids the returned calls added and deleted, and whether a read failed

storeVars == <<callPc, callOp, callItems, effects>>

vars == <<msgVars, sanVars, pasteVars, popupVars, detectVars, tabVars, storeVars>>

notMsgVars == <<sanVars, pasteVars, popupVars, detectVars, tabVars, storeVars>>

notSanVars == <<msgVars, pasteVars, popupVars, detectVars, tabVars, storeVars>>

notPasteVars == <<msgVars, sanVars, popupVars, detectVars, tabVars, storeVars>>

notPopupVars == <<msgVars, sanVars, pasteVars, detectVars, tabVars, storeVars>>

notDetectVars == <<msgVars, sanVars, pasteVars, popupVars, tabVars, storeVars>>

notTabVars == <<sanVars, popupVars, detectVars, storeVars>>

\* ------------------------------------------------------------------------
\* Messages and log entries
\* ------------------------------------------------------------------------
NoMsg == [action |-> "none", content |-> "", contentType |-> "", itemId |-> ""]

PingMsg == [action |-> "ping", content |-> "", contentType |-> "", itemId |-> ""]

Actions == {"pasteClipboardItem", "pasteDirectValue", "getActiveElementInfo", "showAlert"}

Contents == {"hello", "line1\nline2"}

ContentTypes == {"text", "html"}

ItemIds == {"id1", "id2"}

Messages == [action : Actions, content : Contents, contentType : ContentTypes, itemId : ItemIds]

Ev(e, n, ms, kind, m) == [ev |-> e, n |-> n, ms |-> ms, kind |-> kind, msg |-> m]

\* ------------------------------------------------------------------------
\* ContentScriptManager.isTabSupported
\* ------------------------------------------------------------------------
NoUrl == "<undefined>"

NoTab == [present |-> FALSE, id |-> 0, url |-> NoUrl]

unsupportedUrls ==
    <<"chrome://", "chrome-extension://", "moz-extension://", "about:", "edge://",
      "safari-extension://", "resource://", "chrome-search://", "file://", "data:">>

isTabSupported_missingFile(tab) ==
    IF ~tab.present \/ tab.url = NoUrl \/ tab.url = ""
    THEN FALSE
    ELSE ~\E k \in 1..Len(unsupportedUrls) :
            unsupportedUrls[k] # "file://" /\ startsWith(tab.url, unsupportedUrls[k])

isTabSupported(tab) ==
    IF ~tab.present \/ tab.url = NoUrl \/ tab.url = ""
    THEN FALSE
    ELSE ~\E k \in 1..Len(unsupportedUrls) : startsWith(tab.url, unsupportedUrls[k])

\* ------------------------------------------------------------------------
\* ContentScriptManager.sendMessageToTab, step by step
\* ------------------------------------------------------------------------
LoopCond_offByOne(idx, retries) == idx <= retries

LoopCond(idx, retries) == idx < retries

finalMessage_noRewrite(m) == m

finalMessage(m) ==
    [m EXCEPT !.action = IF m.action = "pasteClipboardItem" THEN "pasteDirectValue" ELSE m.action]

Backoff_constant(which, idx) == BackoffUnit

Backoff(which, idx) == IF which = "sw" THEN BackoffUnit * (idx + 1) ELSE BackoffUnit

IsLastAttempt(idx, retries) == idx = retries - 1

PingOutcomes == {"pong", "not_success", "channel_error", "timeout"}

isInjected_anyAnswer(o) == o \in {"pong", "not_success"}

\* response && response.success === true; a rejected race (channel error or the
\* 1 s timer) is caught and gives false
isInjected(o) == o = "pong"

InjectOutcomes == {"ok", "throw"}

SendOutcomes(which) ==
    {"success", "success_false", "send_error"}
        \cup (IF which = "sw" THEN {"timeout"} ELSE {})

ThrownKinds == {"inject_error", "send_error", "timeout"}

\* the catch block of sendMessageToTab: rethrow on the last attempt, else back off
Catch(base, kind, ms) ==
    /\ log' = Append(base, Ev("failed", i + 1, ms, kind, NoMsg))
    /\ pc' = IF IsLastAttempt(i, DefaultRetries) THEN "thrown" ELSE "backoff"
    /\ UNCHANGED <<impl, i, message, response, cmd, clipboardItems, favoriteItem, activeTab, cmdResult>>

\* a direct call of sendMessageToTab(tabId, m)
CallSendMessageToTab ==
    /\ pc = "idle" /\ cmd = "none" /\ UNCHANGED notMsgVars
    /\ \E m \in Messages : message' = m
    /\ i' = 0
    /\ pc' = "loop"
    /\ log' = Append(log, Ev("call", 0, 0, "", NoMsg))
    /\ UNCHANGED <<impl, response, cmd, clipboardItems, favoriteItem, activeTab, cmdResult>>

\* for (let i = 0; i < retries; i++) ... throw new Error('Failed to send message after ...')
LoopHead ==
    /\ pc = "loop" /\ UNCHANGED notMsgVars
    /\ IF LoopCond(i, DefaultRetries)
       THEN /\ pc' = "ping"
            /\ log' = Append(log, Ev("attempt", i + 1, 0, "", NoMsg))
       ELSE /\ pc' = "thrown"
            /\ log' = Append(log, Ev("exhausted", i, 0, "", NoMsg))
    /\ UNCHANGED <<impl, i, message, response, cmd, clipboardItems, favoriteItem, activeTab, cmdResult>>

\* injectContentScript -> isContentScriptInjected: ping raced against a 1 s timer
Ping ==
    /\ pc = "ping" /\ UNCHANGED notMsgVars
    /\ \E o \in PingOutcomes :
        /\ log' = Append(log, Ev("transmit", i + 1, IF o = "timeout" THEN PingTimeout ELSE 0, o, PingMsg))
        /\ pc' = IF isInjected(o) THEN "send" ELSE "inject"
    /\ UNCHANGED <<impl, i, message, response, cmd, clipboardItems, favoriteItem, activeTab, cmdResult>>

\* injectContentScript: executeScript; a failure is rethrown into sendMessageToTab's catch
Inject ==
    /\ pc = "inject" /\ UNCHANGED notMsgVars
    /\ \E o \in InjectOutcomes :
        IF o = "ok"
        THEN /\ log' = Append(log, Ev("inject", i + 1, 0, "", NoMsg))
             /\ pc' = "settle"
             /\ UNCHANGED <<impl, i, message, response, cmd, clipboardItems, favoriteItem, activeTab, cmdResult>>
        ELSE Catch(Append(log, Ev("inject", i + 1, 0, "", NoMsg)), "inject_error", 0)

Settle_pingsAgain ==
    /\ pc = "settle" /\ UNCHANGED notMsgVars
    /\ log' = Append(log, Ev("settle", i + 1, SettleDelay, "", NoMsg))
    /\ pc' = "ping"
    /\ UNCHANGED <<impl, i, message, response, cmd, clipboardItems, favoriteItem, activeTab, cmdResult>>

\* injectContentScript: await setTimeout(200)
Settle ==
    /\ pc = "settle" /\ UNCHANGED notMsgVars
    /\ log' = Append(log, Ev("settle", i + 1, SettleDelay, "", NoMsg))
    /\ pc' = "send"
    /\ UNCHANGED <<impl, i, message, response, cmd, clipboardItems, favoriteItem, activeTab, cmdResult>>

\* tabs.sendMessage(tabId, finalMessage)
Send ==
    /\ pc = "send" /\ UNCHANGED notMsgVars
    /\ log' = Append(log, Ev("transmit", i + 1, 0, "", finalMessage(message)))
    /\ pc' = "await"
    /\ UNCHANGED <<impl, i, message, response, cmd, clipboardItems, favoriteItem, activeTab, cmdResult>>

\* the answer of the executor, a send error, or (service-worker.ts) the 5 s timer
Receive ==
    /\ pc = "await" /\ UNCHANGED notMsgVars
    /\ \E o \in SendOutcomes(impl) :
        CASE o = "success" ->
                /\ response' = "success"
                /\ pc' = "returned"
                /\ log' = Append(log, Ev("succeeded", i + 1, 0, "", NoMsg))
                /\ UNCHANGED <<impl, i, message, cmd, clipboardItems, favoriteItem, activeTab, cmdResult>>
          [] o = "success_false" ->
                /\ log' = Append(log, Ev("failed", i + 1, 0, o, NoMsg))
                /\ i' = i + 1
                /\ pc' = "loop"
                /\ UNCHANGED <<impl, message, response, cmd, clipboardItems, favoriteItem, activeTab, cmdResult>>
          [] o = "timeout" -> Catch(log, o, MessageTimeout)
          [] OTHER -> Catch(log, o, 0)

\* await setTimeout(300 * (i + 1)) resp. setTimeout(300), then the next iteration
BackoffWait ==
    /\ pc = "backoff" /\ UNCHANGED notMsgVars
    /\ log' = Append(log, Ev("wait", i + 1, Backoff(impl, i), "", NoMsg))
    /\ i' = i + 1
    /\ pc' = "loop"
    /\ UNCHANGED <<impl, message, response, cmd, clipboardItems, favoriteItem, activeTab, cmdResult>>

\* ------------------------------------------------------------------------
\* handlePasteFavoriteCommand (service-worker.ts)
\* ------------------------------------------------------------------------
NonString == "<non-string>"

Undefined == "<undefined>"

NoItem == [id |-> "", isFavorite |-> FALSE, content |-> "", type |-> Undefined]

ItemContents == {"hello", "", NonString}

ItemAt(k) == [isFavorite : BOOLEAN, content : ItemContents, type : {"html", Undefined},
              id : {IF k = 1 THEN "id1" ELSE "id2"}]

ItemLists ==
    UNION {{l \in [1..n -> UNION {ItemAt(k) : k \in 1..n}] : \A k \in 1..n : l[k] \in ItemAt(k)}
           : n \in 0..MaxItems}

TabUrls ==
    {NoUrl, "", "https://example.com/", "http://file.example/", "chrome://settings",
     "chrome-extension://abc/popup.html", "moz-extension://abc/popup.html", "about:blank",
     "edge://settings", "safari-extension://abc", "resource://gre/", "chrome-search://local-ntp",
     "file:///home/a.txt", "data:text/html,hi"}

Tabs == [present : {TRUE}, id : {0, 7}, url : TabUrls]

\* clipboardItems.find(item => item && typeof item === 'object' && item.isFavorite === true)
RECURSIVE findFavorite(_)
findFavorite(items) ==
    IF items = <<>> THEN NoItem
    ELSE IF Head(items).isFavorite THEN Head(items) ELSE findFavorite(Tail(items))

\* the early returns of handlePasteFavoriteCommand, in the order of the code
CommandReason(items, tab) ==
    LET fav == findFavorite(items) IN
    IF Len(items) = 0 THEN "no_items"
    ELSE IF fav = NoItem THEN "no_favorite"
    ELSE IF fav.content = "" \/ fav.content = NonString THEN "invalid_content"
    ELSE IF ~tab.present THEN "no_active_tab"
    ELSE IF tab.id = 0 THEN "invalid_tab"
    ELSE IF ~isTabSupported(tab) THEN "unsupported_tab"
    ELSE "proceed"

pasteMessage(fav) ==
    [action |-> "pasteDirectValue", content |-> fav.content,
     contentType |-> IF fav.type = Undefined THEN "text" ELSE fav.type, itemId |-> fav.id]

\* the command up to its first early return or to the call of sendMessageToTab
HandlePasteFavoriteCommand ==
    /\ pc = "idle" /\ cmd = "none" /\ impl = "sw" /\ UNCHANGED notMsgVars
    /\ \E items \in ItemLists, tab \in Tabs \cup {NoTab} :
        LET reason == CommandReason(items, tab) IN
        /\ activeTab' = tab
        /\ IF reason = "proceed"
           THEN /\ cmd' = "sending"
                /\ clipboardItems' = <<>>
                /\ favoriteItem' = findFavorite(items)
                /\ message' = pasteMessage(findFavorite(items))
                /\ i' = 0
                /\ pc' = "loop"
                /\ log' = Append(log, Ev("call", 0, 0, "", NoMsg))
                /\ UNCHANGED cmdResult
           ELSE /\ cmd' = "done"
                /\ clipboardItems' = items
                /\ favoriteItem' = findFavorite(items)
                /\ cmdResult' = [success |-> FALSE, reason |-> reason]
                /\ UNCHANGED <<message, i, pc, log>>
    /\ UNCHANGED <<impl, response>>

CommandFinish_noCatch ==
    /\ cmd = "sending" /\ pc \in {"returned", "thrown"} /\ UNCHANGED notMsgVars
    /\ cmd' = IF pc = "thrown" THEN "threw" ELSE "done"
    /\ cmdResult' = IF pc = "thrown" THEN cmdResult
                    ELSE IF response = "success" THEN [success |-> TRUE, reason |-> ""]
                    ELSE [success |-> FALSE, reason |-> "paste_failed"]
    /\ UNCHANGED <<impl, pc, i, message, response, log, clipboardItems, favoriteItem, activeTab>>

\* the command after sendMessageToTab returned or threw
CommandFinish ==
    /\ cmd = "sending" /\ pc \in {"returned", "thrown"} /\ UNCHANGED notMsgVars
    /\ cmd' = "done"
    /\ cmdResult' = IF pc = "thrown" THEN [success |-> FALSE, reason |-> "critical_error"]
                    ELSE IF response = "success" THEN [success |-> TRUE, reason |-> ""]
                    ELSE [success |-> FALSE, reason |-> "paste_failed"]
    /\ UNCHANGED <<impl, pc, i, message, response, log, clipboardItems, favoriteItem, activeTab>>

\* ------------------------------------------------------------------------
\* HTML documents: a node is an element (tag, attributes, children) or a text
\* node (tag "#text"); a document body is a sequence of nodes
\* ------------------------------------------------------------------------
MaxNodes == 3

MaxAttrs == 2

Text(t) == [tag |-> "#text", attrs |-> <<>>, kids |-> <<>>, text |-> t]

Element(tag, attrs, kids) == [tag |-> tag, attrs |-> attrs, kids |-> kids, text |-> ""]

Attr(name, value) == [name |-> name, value |-> value]

IsText(node) == node.tag = "#text"

VoidTags == {"img", "br"}

\* ------------------------------------------------------------------------
\* More of String.prototype
\* ------------------------------------------------------------------------
UpperCase == "ABCDEFGHIJKLMNOPQRSTUVWXYZ"

LowerCase == "abcdefghijklmnopqrstuvwxyz"

lowerChar(c) ==
    IF \E k \in 1..Len(UpperCase) : SubSeq(UpperCase, k, k) = c
    THEN LET k == CHOOSE k \in 1..Len(UpperCase) : SubSeq(UpperCase, k, k) = c
         IN SubSeq(LowerCase, k, k)
    ELSE c

RECURSIVE toLowerCase(_)
toLowerCase(s) ==
    IF Len(s) = 0 THEN "" ELSE lowerChar(SubSeq(s, 1, 1)) \o toLowerCase(SubSeq(s, 2, Len(s)))

WhiteSpace == {" ", "\n", "\r", "\t"}

RECURSIVE trimStart(_)
trimStart(s) ==
    IF Len(s) > 0 /\ SubSeq(s, 1, 1) \in WhiteSpace THEN trimStart(SubSeq(s, 2, Len(s))) ELSE s

RECURSIVE trimEnd(_)
trimEnd(s) ==
    IF Len(s) > 0 /\ SubSeq(s, Len(s), Len(s)) \in WhiteSpace
    THEN trimEnd(SubSeq(s, 1, Len(s) - 1)) ELSE s

trim(s) == trimEnd(trimStart(s))

\* ------------------------------------------------------------------------
\* HTMLSanitizer (html-sanitizer.ts)
\* ------------------------------------------------------------------------
ALLOWED_TAGS ==
    {"p", "br", "strong", "b", "em", "i", "u", "span", "div",
     "h1", "h2", "h3", "h4", "h5", "h6", "ul", "ol", "li", "a", "img",
     "table", "tr", "td", "th", "tbody", "thead", "blockquote", "pre", "code"}

ALLOWED_ATTRIBUTES(tag) ==
    CASE tag = "a" -> {"href", "title"}
      [] tag = "img" -> {"src", "alt", "title", "width", "height"}
      [] tag \in {"span", "div", "p"} -> {"style"}
      [] OTHER -> {}

DANGEROUS_PROTOCOLS == {"javascript:", "vbscript:", "data:", "file:", "ftp:"}

DangerousCss ==
    {"expression", "javascript:", "vbscript:", "behavior:", "binding:", "@import", "url("}

sanitizeStyle_javascriptAllowed(style) ==
    IF \E danger \in DangerousCss \ {"javascript:"} : includes(toLowerCase(style), danger)
    THEN "" ELSE style

sanitizeStyle(style) ==
    IF \E danger \in DangerousCss : includes(toLowerCase(style), danger) THEN "" ELSE style

\* the attribute survives cleanAttributes (its value is never changed)
keepsAttribute(tag, attr) ==
    LET attrName == toLowerCase(attr.name) IN
    /\ ~startsWith(attrName, "on")
    /\ attrName \in ALLOWED_ATTRIBUTES(tag)
    /\ attrName \in {"href", "src"} =>
          ~\E protocol \in DANGEROUS_PROTOCOLS : startsWith(trim(toLowerCase(attr.value)), protocol)
    /\ attrName = "style" => sanitizeStyle(attr.value) # ""

cleanAttributes(tag, attrs) == SelectSeq(attrs, LAMBDA attr : keepsAttribute(tag, attr))

\* Node.textContent: the texts of all descendant text nodes, in document order
RECURSIVE textContent(_)
textContent(node) ==
    IF IsText(node) THEN node.text
    ELSE IF node.kids = <<>> THEN ""
    ELSE textContent(Head(node.kids))
            \o textContent([node EXCEPT !.kids = Tail(node.kids)])

RECURSIVE cleanNode_noRecursion(_)
cleanNode_noRecursion(children) ==
    IF children = <<>> THEN <<>>
    ELSE LET child == Head(children)
             cleaned ==
                IF IsText(child) THEN child
                ELSE IF child.tag \notin ALLOWED_TAGS THEN Text(textContent(child))
                ELSE Element(child.tag, cleanAttributes(child.tag, child.attrs), child.kids)
         IN <<cleaned>> \o cleanNode_noRecursion(Tail(children))

\* cleanNode applied to the children of a node: a disallowed element becomes a
\* text node holding its textContent, an allowed one gets its attributes
\* cleaned and its own children cleaned
RECURSIVE cleanNode(_)
cleanNode(children) ==
    IF children = <<>> THEN <<>>
    ELSE LET child == Head(children)
             cleaned ==
                IF IsText(child) THEN child
                ELSE IF child.tag \notin ALLOWED_TAGS THEN Text(textContent(child))
                ELSE Element(child.tag, cleanAttributes(child.tag, child.attrs), cleanNode(child.kids))
         IN <<cleaned>> \o cleanNode(Tail(children))

\* doc.body.innerHTML read back by a parser: adjacent text nodes become one text
\* node and an empty text node leaves no trace
RECURSIVE innerHTML(_)
innerHTML(children) ==
    IF children = <<>> THEN <<>>
    ELSE LET child == Head(children)
             rest == innerHTML(Tail(children))
         IN IF IsText(child)
            THEN IF child.text = "" THEN rest
                 ELSE IF rest # <<>> /\ IsText(Head(rest))
                      THEN <<Text(child.text \o Head(rest).text)>> \o Tail(rest)
                      ELSE <<child>> \o rest
            ELSE <<[child EXCEPT !.kids = innerHTML(child.kids)]>> \o rest

sanitize(body) == innerHTML(cleanNode(body))

\* the children of doc.body after DOMParser.parseFromString has parsed the
\* markup of these nodes: the tree builder ignores white space that comes
\* before the first other token, so the body never starts with it
parseFromString(children) ==
    LET body == innerHTML(children) IN
    IF body # <<>> /\ IsText(Head(body))
    THEN LET text == trimStart(Head(body).text)
         IN IF text = "" THEN Tail(body) ELSE <<Text(text)>> \o Tail(body)
    ELSE body

\* document.querySelectorAll('*') below the body, in document order
RECURSIVE allElements(_)
allElements(children) ==
    IF children = <<>> THEN <<>>
    ELSE LET child == Head(children) IN
         (IF IsText(child) THEN <<>> ELSE <<child>> \o allElements(child.kids))
            \o allElements(Tail(children))

Range(seq) == {seq[k] : k \in 1..Len(seq)}

isSafeHTML(body) ==
    /\ ~\E e \in Range(allElements(body)) : e.tag = "script"
    /\ ~\E e \in Range(allElements(body)) : \E a \in Range(e.attrs) :
            startsWith(a.name, "on") \/ includes(a.value, "javascript:")

\* ------------------------------------------------------------------------
\* Inputs of the sanitizer: every document of at most MaxNodes nodes over a
\* few tags with at most one attribute, and every single element with up to
\* MaxAttrs attributes of different names
\* ------------------------------------------------------------------------
AttrSamples ==
    {Attr("onclick", "steal()"), Attr("href", "javascript:alert(1)"),
     Attr("href", "https://a.b/#javascript:"), Attr("href", " JavaScript:alert(1)"),
     Attr("src", "javascript:alert(1)"), Attr("src", "pic.png"),
     Attr("title", "javascript:void"), Attr("style", "color:red"),
     Attr("style", "background:URL(javascript:x)"), Attr("style", "color:JavaScript:red"),
     Attr("style", "color:javascript:red"), Attr("id", "x")}

TreeAttrs == {<<>>, <<Attr("onclick", "steal()")>>}

TreeTags == {"div", "img", "script"}

\* the nodes that may come first in a forest of n nodes: a node with k - 1
\* nodes below it, which are one of the forests in kids
FirstNodes(k, kids) ==
    (IF k = 1 THEN {Text("hi"), Text(" hi")} ELSE {})
        \cup {Element(tag, attrs, below) :
                tag \in (IF k = 1 THEN TreeTags ELSE TreeTags \ VoidTags),
                attrs \in TreeAttrs, below \in kids}

\* <<the forests of 0 nodes, the forests of 1 node, ..., the forests of n nodes>>
RECURSIVE ForestsUpTo(_)
ForestsUpTo(n) ==
    IF n = 0 THEN <<{<<>>}>>
    ELSE LET smaller == ForestsUpTo(n - 1)
             forests == UNION {{<<first>> \o rest : first \in FirstNodes(k, smaller[k]),
                                                    rest \in smaller[n - k + 1]}
                               : k \in 1..n}
         IN Append(smaller, forests)

AttrLists ==
    UNION {{l \in [1..n -> AttrSamples] : \A a, b \in 1..n : a < b => l[a].name # l[b].name}
           : n \in 0..MaxAttrs}

Documents ==
    (LET forests == ForestsUpTo(MaxNodes) IN UNION {forests[n] : n \in 1..(MaxNodes + 1)})
        \cup {<<Element(tag, attrs, <<>>)>> : tag \in {"a", "img", "div", "b"}, attrs \in AttrLists}

\* ------------------------------------------------------------------------
\* Specification of the sanitizer
\* ------------------------------------------------------------------------
SanOff == html = <<>> /\ sanitized = <<>> /\ safe = FALSE /\ resanitized = <<>> /\ spc = "off"

InitSan ==
    /\ html \in Documents
    /\ sanitized = <<>>
    /\ safe = FALSE
    /\ resanitized = <<>>
    /\ spc = "parsed"

\* sanitizeHTML(html)
Sanitize ==
    /\ spc = "parsed" /\ UNCHANGED notSanVars
    /\ sanitized' = sanitize(html)
    /\ spc' = "sanitized"
    /\ UNCHANGED <<html, safe, resanitized>>

\* isSafeHTML(sanitizeHTML(html))
CheckSafe ==
    /\ spc = "sanitized" /\ UNCHANGED notSanVars
    /\ safe' = isSafeHTML(sanitized)
    /\ spc' = "checked"
    /\ UNCHANGED <<html, sanitized, resanitized>>

\* sanitizeHTML(sanitizeHTML(html)): the second call parses the string the
\* first one returned
SanitizeAgain ==
    /\ spc = "sanitized" /\ UNCHANGED notSanVars
    /\ resanitized' = sanitize(parseFromString(sanitized))
    /\ spc' = "again"
    /\ UNCHANGED <<html, sanitized, safe>>

NextSan == Sanitize \/ CheckSafe \/ SanitizeAgain

\* ------------------------------------------------------------------------
\* Properties of the sanitizer
\* ------------------------------------------------------------------------
HasAttr(e, P(_)) == \E a \in Range(e.attrs) : P(a)

IsHandlerAttr(a) == startsWith(toLowerCase(a.name), "on")

\* C9: the document returned by sanitize contains, at any depth, no script
\* element and no attribute whose lower-cased name starts with "on".
C9_NoScriptNoHandlers ==
    spc \in {"sanitized", "checked"} =>
        \A e \in Range(allElements(sanitized)) : e.tag # "script" /\ ~HasAttr(e, IsHandlerAttr)

C9_Witness ==
    /\ spc = "sanitized"
    /\ \E top \in Range(html) :
        /\ top.tag = "div"
        /\ \E kid \in Range(top.kids) : kid.tag = "div" /\ HasAttr(kid, IsHandlerAttr)
                                        /\ \E low \in Range(kid.kids) : low.tag = "script"
    /\ Len(allElements(sanitized)) = 2

\* C10 as claimed: isSafeHTML(sanitize(x)) is true for every input x.
C10_SanitizedIsSafe == spc = "checked" => safe = TRUE

\* the elements of a document that sanitize keeps as elements: those whose tag
\* and whose ancestors' tags are all allowed
RECURSIVE KeptElements(_)
KeptElements(children) ==
    UNION {IF IsText(c) \/ c.tag \notin ALLOWED_TAGS THEN {}
           ELSE {c} \cup KeptElements(c.kids) : c \in Range(children)}

MentionsJavascript(a) == includes(a.value, "javascript:")

UncheckedAttr(tag, a) ==
    /\ a.name \in ALLOWED_ATTRIBUTES(tag)
    /\ a.name # "style"
    /\ a.name \in {"href", "src"} =>
          ~\E protocol \in DANGEROUS_PROTOCOLS : startsWith(trim(toLowerCase(a.value)), protocol)

\* C10 amended: sanitize(x) has no script element, no attribute starting with
\* "on", no href or src whose trimmed lower-cased value starts with
\* "javascript:" and no style that contains "javascript:" in any letter case;
\* isSafeHTML(sanitize(x)) is false exactly when an element that sanitize keeps
\* carries an allowed attribute other than style (title, alt, width, height,
\* or an href/src not starting with a deny-listed protocol) whose value
\* contains "javascript:".
C10_SafeUnlessKeptValueMentionsJavascript ==
    /\ spc \in {"sanitized", "checked"} =>
        \A e \in Range(allElements(sanitized)) :
            /\ e.tag # "script" /\ ~HasAttr(e, IsHandlerAttr)
            /\ \A a \in Range(e.attrs) :
                /\ a.name \in {"href", "src"} => ~startsWith(trim(toLowerCase(a.value)), "javascript:")
                /\ a.name = "style" => ~includes(toLowerCase(a.value), "javascript:")
    /\ spc = "checked" =>
        (safe <=> ~\E e \in KeptElements(html) :
                        \E a \in Range(e.attrs) : UncheckedAttr(e.tag, a) /\ MentionsJavascript(a))

C10_Witness ==
    /\ spc = "checked" /\ safe = FALSE
    /\ \E e \in Range(allElements(sanitized)) : e.tag = "a" /\ e.attrs = <<Attr("title", "javascript:void")>>

\* C11: sanitize is idempotent: sanitize(sanitize(x)) equals sanitize(x) for
\* every input x.
C11_Idempotent == spc = "again" => resanitized = sanitized

\* the second pass alone: it replaces no element, removes no attribute and
\* changes no attribute value of the document it parsed
C11_SecondPassKeepsElements ==
    spc = "again" => allElements(resanitized) = allElements(parseFromString(sanitized))

\* ------------------------------------------------------------------------
\* The page the executor works on
\* ------------------------------------------------------------------------
MaxElements == 2

MaxLocates == 2

ImageLimit == 2000

ClipboardCheckLength == 50

VerifyLength == 100

NoElement == 0

NoAttribute == "<absent>"

\* U+200B, one code unit
ZeroWidthSpace == "~"

ImagePlaceholder == "[Image data - too large for text field]"

PasteFailed == "Paste operation failed - no suitable element found or content could not be inserted"

InvalidContent == "Invalid or missing content"

\* an <input> or <textarea>; focusable says whether focus() makes it the
\* active element
InputElement(tagName, disabled, readOnly, focusable, value, selectionStart, selectionEnd) ==
    [tagName |-> tagName, disabled |-> disabled, readOnly |-> readOnly,
     contenteditable |-> NoAttribute, focusable |-> focusable, value |-> value,
     selectionStart |-> selectionStart, selectionEnd |-> selectionEnd,
     childNodes |-> <<>>, events |-> <<>>]

\* a <div> with the given contenteditable attribute and children
DivElement(contenteditable, childNodes) ==
    [tagName |-> "DIV", disabled |-> FALSE, readOnly |-> FALSE,
     contenteditable |-> contenteditable, focusable |-> TRUE, value |-> "",
     selectionStart |-> 0, selectionEnd |-> 0,
     childNodes |-> childNodes, events |-> <<>>]

ElementSamples ==
    {InputElement("INPUT", FALSE, FALSE, TRUE, "", 0, 0),
     InputElement("INPUT", FALSE, FALSE, TRUE, "abcd", 1, 3),
     InputElement("INPUT", TRUE, FALSE, FALSE, "abcd", 1, 3),
     InputElement("INPUT", FALSE, FALSE, FALSE, "", 0, 0),
     InputElement("TEXTAREA", FALSE, FALSE, TRUE, "", 0, 0),
     InputElement("TEXTAREA", FALSE, TRUE, TRUE, "abcd", 1, 3),
     DivElement("true", <<>>),
     DivElement("", <<>>),
     DivElement(NoAttribute, <<>>),
     DivElement("true", <<Text("hello")>>)}

Pages == UNION {[1..n -> ElementSamples] : n \in 0..MaxElements}

\* the elements that may hold the focus when a request arrives: one that
\* focus() can reach, or a control that was disabled after it got the focus
MayBeActive(element) == element.focusable \/ element.disabled

isInput(element) == element.tagName \in {"INPUT", "TEXTAREA"}

isContentEditable(element) == element.contenteditable \in {"true", ""}

\* ------------------------------------------------------------------------
\* Paste requests
\* ------------------------------------------------------------------------
HtmlSources ==
    {[src |-> "<b onclick=steal()>x</b>",
      body |-> <<Element("b", <<Attr("onclick", "steal()")>>, <<Text("x")>>)>>],
     [src |-> "<img src=javascript:alert(1)>",
      body |-> <<Element("img", <<Attr("src", "javascript:alert(1)")>>, <<>>)>>],
     [src |-> "<p><img src=javascript:alert(1)></p>",
      body |-> <<Element("p", <<>>, <<Element("img", <<Attr("src", "javascript:alert(1)")>>, <<>>)>>)>>],
     [src |-> "<p>ok</p><script>evil()</script>",
      body |-> <<Element("p", <<>>, <<Text("ok")>>), Element("script", <<>>, <<Text("evil()")>>)>>]}

\* the children of the body an HTML parser builds from the string
parseHTML(s) ==
    IF \E h \in HtmlSources : h.src = s
    THEN (CHOOSE h \in HtmlSources : h.src = s).body
    ELSE IF s = "" THEN <<>> ELSE <<Text(s)>>

PasteRequest(content, contentType) ==
    [action |-> "pasteDirectValue", content |-> content, contentType |-> contentType, itemId |-> "id1"]

NoRequest == [action |-> "none", content |-> "", contentType |-> "", itemId |-> ""]

\* a string of n copies of s
RECURSIVE repeat(_, _)
repeat(s, n) ==
    IF n = 0 THEN ""
    ELSE IF n % 2 = 0 THEN LET half == repeat(s, n \div 2) IN half \o half
    ELSE s \o repeat(s, n - 1)

\* a data URL of n code units
ImageOf(n) == "data:image/" \o repeat("A", n - Len("data:image/"))

PasteRequests ==
    {PasteRequest("hello", "text"), PasteRequest("line1\nline2", "text"),
     PasteRequest("a\r\nb\nc", "text"), PasteRequest("hello", "html"),
     PasteRequest("", "text"),
     PasteRequest("https://example.com/", "url"), PasteRequest("javascript:alert(1)", "url"),
     PasteRequest("data:image/png;base64,AAAA", "image")}
        \cup {PasteRequest(h.src, "html") : h \in HtmlSources}

\* requests around the limit of an image in an <input>, with one request of
\* every other kind
ImageRequests ==
    {PasteRequest(ImageOf(ImageLimit), "image"),
     PasteRequest(ImageOf(ImageLimit + 1), "image"),
     PasteRequest(ImageOf(ImageLimit + 1), "text"),
     PasteRequest("data:image/png;base64,AAAA", "image"),
     PasteRequest("line1\nline2", "text"), PasteRequest("a\r\nb\nc", "text"),
     PasteRequest("https://example.com/", "url"),
     PasteRequest("<b onclick=steal()>x</b>", "html")}

\* ------------------------------------------------------------------------
\* PasteHandler: classification of the content
\* ------------------------------------------------------------------------
isHtmlContent(content) ==
    LET trimmed == trim(content) IN
    /\ includes(trimmed, "<")
    /\ includes(trimmed, ">")
    /\ \/ includes(trimmed, "</")
       \/ startsWith(trimmed, "<html")
       \/ startsWith(trimmed, "<!DOCTYPE")

Letters == LowerCase \o UpperCase

SchemeChars == Letters \o "0123456789+-."

IsOneOf(c, chars) == \E k \in 1..Len(chars) : SubSeq(chars, k, k) = c

\* where the scheme of an absolute URL ends, 0 when the string has no scheme
schemeEnd(url) ==
    LET colons == {k \in 2..Len(url) :
                      /\ SubSeq(url, k, k) = ":"
                      /\ IsOneOf(SubSeq(url, 1, 1), Letters)
                      /\ \A j \in 1..(k - 1) : IsOneOf(SubSeq(url, j, j), SchemeChars)}
    IN IF colons = {} THEN 0 ELSE CHOOSE k \in colons : \A j \in colons : k <= j

\* new URL(url).protocol, "" when the constructor throws
protocol(url) == IF schemeEnd(url) = 0 THEN "" ELSE toLowerCase(SubSeq(url, 1, schemeEnd(url)))

\* new URL(url).href for a URL that has a path and a lower-case host
href(url) == protocol(url) \o SubSeq(url, schemeEnd(url) + 1, Len(url))

isUrlContent(content) == protocol(content) # ""

contentKind(content, contentType) ==
    IF contentType = "image" /\ startsWith(content, "data:image/") THEN "image"
    ELSE IF contentType = "html" /\ isHtmlContent(content) THEN "html"
    ELSE IF contentType = "url" /\ isUrlContent(content) THEN "url"
    ELSE "text"

\* ------------------------------------------------------------------------
\* doc.body.innerHTML as a string
\* ------------------------------------------------------------------------
RECURSIVE escapeText(_)
escapeText(s) ==
    IF Len(s) = 0 THEN ""
    ELSE LET c == SubSeq(s, 1, 1) IN
         (CASE c = "&" -> "&amp;" [] c = "<" -> "&lt;" [] c = ">" -> "&gt;" [] OTHER -> c)
            \o escapeText(SubSeq(s, 2, Len(s)))

RECURSIVE escapeAttribute(_)
escapeAttribute(s) ==
    IF Len(s) = 0 THEN ""
    ELSE LET c == SubSeq(s, 1, 1) IN
         (CASE c = "&" -> "&amp;" [] c = "\"" -> "&quot;" [] OTHER -> c)
            \o escapeAttribute(SubSeq(s, 2, Len(s)))

RECURSIVE serializeAttributes(_)
serializeAttributes(attrs) ==
    IF attrs = <<>> THEN ""
    ELSE " " \o Head(attrs).name \o "=\"" \o escapeAttribute(Head(attrs).value) \o "\""
            \o serializeAttributes(Tail(attrs))

RECURSIVE serializeHTML(_)
serializeHTML(children) ==
    IF children = <<>> THEN ""
    ELSE LET child == Head(children) IN
         (IF IsText(child) THEN escapeText(child.text)
          ELSE "<" \o child.tag \o serializeAttributes(child.attrs) \o ">"
                \o (IF child.tag \in VoidTags THEN ""
                    ELSE serializeHTML(child.kids) \o "</" \o child.tag \o ">"))
            \o serializeHTML(Tail(children))

\* an HTML string together with the body a parser builds from it
Markup(text, body) == [text |-> text, body |-> body]

markupOf(content) == Markup(content, parseHTML(content))

\* sanitizeHTML(markup): the string sanitize returns, which parses to the
\* cleaned body
sanitizeHTML(markup) == Markup(serializeHTML(sanitize(markup.body)), sanitize(markup.body))

\* ------------------------------------------------------------------------
\* PasteHandler: insertion into <input> and <textarea>
\* ------------------------------------------------------------------------
\* /\r?\n/.test(s)
hasLineBreaks(s) == includes(s, "\n")

\* s.replace(/\r?\n/g, " ")
RECURSIVE replaceLineBreaks(_)
replaceLineBreaks(s) ==
    IF Len(s) = 0 THEN ""
    ELSE IF startsWith(s, "\r\n") THEN " " \o replaceLineBreaks(SubSeq(s, 3, Len(s)))
    ELSE IF startsWith(s, "\n") THEN " " \o replaceLineBreaks(SubSeq(s, 2, Len(s)))
    ELSE SubSeq(s, 1, 1) \o replaceLineBreaks(SubSeq(s, 2, Len(s)))

\* insertContent after the image special case
placeholderFor_atLimit(element, content, type) ==
    IF /\ type = "image"
       /\ startsWith(content, "data:image/")
       /\ element.tagName = "INPUT"
       /\ Len(content) >= ImageLimit
    THEN ImagePlaceholder
    ELSE content

placeholderFor(element, content, type) ==
    IF /\ type = "image"
       /\ startsWith(content, "data:image/")
       /\ element.tagName = "INPUT"
       /\ Len(content) > ImageLimit
    THEN ImagePlaceholder
    ELSE content

\* insertContent as it is spliced into the value; only content-main.ts
\* converts line breaks
insertContentFor(which, element, content, type) ==
    LET insertContent == placeholderFor(element, content, type) IN
    IF which = "main" /\ element.tagName = "INPUT" /\ hasLineBreaks(insertContent)
    THEN replaceLineBreaks(insertContent)
    ELSE insertContent

newValue_keepsSelection(value, start, end, insertContent) ==
    substring(value, 0, start) \o insertContent \o substringFrom(value, start)

newValue(value, start, end, insertContent) ==
    substring(value, 0, start) \o insertContent \o substringFrom(value, end)

newCursorPos(start, insertContent) == start + Len(insertContent)

triggerInputEvents_keyupFirst(which, element) ==
    IF which = "main"
    THEN <<"focus", "focusin", "beforeinput", "input", "textInput", "change",
           "keyup", "keypress", "keydown", "DOMSubtreeModified">>
            \o (IF element.contenteditable # NoAttribute THEN <<"compositionend">> ELSE <<>>)
    ELSE <<"focus", "input", "change", "keydown", "keyup">>

\* the events triggerInputEvents dispatches on the element, in order (the
\* elements of the model are no React components and have no ProseMirror class)
triggerInputEvents(which, element) ==
    IF which = "main"
    THEN <<"focus", "focusin", "beforeinput", "input", "textInput", "change",
           "keydown", "keypress", "keyup", "DOMSubtreeModified">>
            \o (IF element.contenteditable # NoAttribute THEN <<"compositionend">> ELSE <<>>)
    ELSE <<"focus", "input", "change", "keydown", "keyup">>

pasteToInput_ignoresReadOnly(which, element, content, type) ==
    IF element.disabled
    THEN [ok |-> FALSE, element |-> element, text |-> "", changed |-> FALSE]
    ELSE LET start == element.selectionStart
             end == element.selectionEnd
             insertContent == insertContentFor(which, element, content, type)
             pos == newCursorPos(start, insertContent)
         IN [ok |-> TRUE,
             element |-> [element EXCEPT !.value = newValue(element.value, start, end, insertContent),
                                         !.selectionStart = pos,
                                         !.selectionEnd = pos,
                                         !.events = @ \o triggerInputEvents(which, element)],
             text |-> insertContent,
             changed |-> TRUE]

\* pasteToInput: the value it returns, the element as it leaves it and the
\* text it spliced in
pasteToInput(which, element, content, type) ==
    IF element.disabled \/ element.readOnly
    THEN [ok |-> FALSE, element |-> element, text |-> "", changed |-> FALSE]
    ELSE LET start == element.selectionStart
             end == element.selectionEnd
             insertContent == insertContentFor(which, element, content, type)
             pos == newCursorPos(start, insertContent)
         IN [ok |-> TRUE,
             element |-> [element EXCEPT !.value = newValue(element.value, start, end, insertContent),
                                         !.selectionStart = pos,
                                         !.selectionEnd = pos,
                                         !.events = @ \o triggerInputEvents(which, element)],
             text |-> insertContent,
             changed |-> TRUE]

\* ------------------------------------------------------------------------
\* PasteHandler: insertion into contentEditable elements
\* ------------------------------------------------------------------------
\* content.split(/\r?\n/)
RECURSIVE splitLines(_)
splitLines(s) ==
    IF ~hasLineBreaks(s) THEN <<s>>
    ELSE LET k == CHOOSE k \in 1..Len(s) :
                    SubSeq(s, k, k) = "\n" /\ \A j \in 1..(k - 1) : SubSeq(s, j, j) # "\n"
             line == IF k > 1 /\ SubSeq(s, k - 1, k - 1) = "\r"
                     THEN SubSeq(s, 1, k - 2) ELSE SubSeq(s, 1, k - 1)
         IN <<line>> \o splitLines(SubSeq(s, k + 1, Len(s)))

\* the editor detection of the fallback, for elements without class, role and
\* data-pm-slice
isProseMirror(element) == element.contenteditable = "true"

\* what lines.forEach appends for the line at index (from 0), ProseMirror branch
hardBreakLine(lines, index) ==
    LET line == lines[index + 1] IN
    (IF Len(line) > 0 THEN <<Text(line)>>
     ELSE IF index = 0 \/ index = Len(lines) - 1 THEN <<Text(ZeroWidthSpace)>>
     ELSE <<>>)
      \o (IF index < Len(lines) - 1
          THEN <<Element("br", <<Attr("data-pm-slice", "0 0 []")>>, <<>>)>> ELSE <<>>)

\* the same for the standard branch
brLine(lines, index) ==
    LET line == lines[index + 1] IN
    (IF Len(line) > 0 \/ index = 0 THEN <<Text(line)>> ELSE <<>>)
      \o (IF index < Len(lines) - 1
          THEN <<Element("br", <<>>, <<>>)>>
                \o (IF Len(line) = 0 THEN <<Element("br", <<>>, <<>>)>> ELSE <<>>)
          ELSE <<>>)

RECURSIVE lineNodes(_, _, _)
lineNodes(lines, index, hard) ==
    IF index >= Len(lines) THEN <<>>
    ELSE (IF hard THEN hardBreakLine(lines, index) ELSE brLine(lines, index))
            \o lineNodes(lines, index + 1, hard)

\* nodeToInsert of fallbackPasteToContentEditable (content-main.ts): the nodes
\* that reach the element; markup is assigned to innerHTML as it came
fallbackNodes(element, content, type) ==
    CASE type = "html" -> content.body
      [] type = "url" ->
            <<Element("a", <<Attr("href", content.text), Attr("target", "_blank")>>,
                      <<Text(content.text)>>)>>
      [] type = "image" ->
            <<Element("img", <<Attr("src", content.text),
                               Attr("style", "max-width: 100%; height: auto;")>>, <<>>)>>
      [] OTHER -> lineNodes(splitLines(content.text), 0, isProseMirror(element))

safeProtocols == {"http:", "https:", "ftp:", "mailto:"}

sanitizeURL(url) == IF protocol(url) \in safeProtocols THEN href(url) ELSE "#"

\* createSafeHTMLFragment (paste-handler.ts): sanitize, then parse
createSafeHTMLFragment(markup) == sanitizeHTML(markup).body

\* nodeToInsert of pasteToContentEditable (paste-handler.ts)
safeNodes(element, content, type) ==
    CASE type = "html" -> createSafeHTMLFragment(content)
      [] type = "url" ->
            <<Element("a", <<Attr("href", sanitizeURL(content.text)), Attr("target", "_blank"),
                             Attr("rel", "noopener noreferrer")>>,
                      <<Text(content.text)>>)>>
      [] type = "image" ->
            <<Element("img", <<Attr("src", content.text),
                               Attr("style", "max-width: 100%; height: auto;"),
                               Attr("alt", "Pasted image")>>, <<>>)>>
      [] OTHER -> <<Text(content.text)>>

\* nodeToInsert is a DocumentFragment
isFragment(which, type) ==
    IF which = "main" THEN type \in {"html", "text"} ELSE type = "html"

\* range.insertNode(nodeToInsert) and what follows it. A DocumentFragment has
\* no parent, so range.setStartAfter(nodeToInsert) throws after the nodes are
\* in the element and the catch clause returns false
insertNode(which, element, content, type) ==
    LET nodes == IF which = "main" THEN fallbackNodes(element, content, type)
                 ELSE safeNodes(element, content, type)
        ok == ~isFragment(which, type)
    IN [ok |-> ok,
        element |-> [element EXCEPT !.childNodes = @ \o nodes,
                                    !.events = IF ok THEN @ \o triggerInputEvents(which, element)
                                               ELSE @],
        nodes |-> nodes]

\* element.textContent
elementText(element) == textContent(Element("div", <<>>, element.childNodes))

prefix(s, n) == substring(s, 0, IF Len(s) < n THEN Len(s) ELSE n)

\* ------------------------------------------------------------------------
\* ContentScriptMain: the answer to a paste request
\* ------------------------------------------------------------------------
\* an answer without activeElementInfo
NoInfo == [tagName |-> "", type |-> "<absent>", canPaste |-> FALSE, selection |-> <<>>]

\* activeElementInfo: null
NullInfo == [tagName |-> "", type |-> "null", canPaste |-> FALSE, selection |-> <<>>]

isActiveElementPasteable(els, k) ==
    IF k = NoElement THEN FALSE
    ELSE IF isInput(els[k]) THEN ~els[k].disabled /\ ~els[k].readOnly
    ELSE isContentEditable(els[k])

\* the type is left at "unknown" for every element
getActiveElementInfo_sameType(els, k) ==
    IF k = NoElement THEN NullInfo
    ELSE LET element == els[k]
             info == [tagName |-> element.tagName, type |-> "unknown",
                      canPaste |-> isActiveElementPasteable(els, k), selection |-> <<>>]
         IN info

\* getActiveElementInfo: every <input> of the page is of type "text"
getActiveElementInfo(els, k) ==
    IF k = NoElement THEN NullInfo
    ELSE LET element == els[k]
             info == [tagName |-> element.tagName, type |-> "unknown",
                      canPaste |-> isActiveElementPasteable(els, k), selection |-> <<>>]
             selection == <<element.selectionStart, element.selectionEnd>>
         IN IF element.tagName = "INPUT"
            THEN [info EXCEPT !.type = "text", !.selection = selection]
            ELSE IF element.tagName = "TEXTAREA"
            THEN [info EXCEPT !.type = "textarea", !.selection = selection]
            ELSE IF isContentEditable(element)
            THEN [info EXCEPT !.type = "contenteditable"]
            ELSE info

NoReply ==
    [success |-> FALSE, error |-> "<none>", verified |-> FALSE, reason |-> "",
     activeElementInfo |-> NoInfo]

Failure(error) ==
    [success |-> FALSE, error |-> error, verified |-> FALSE, reason |-> "",
     activeElementInfo |-> NoInfo]

\* the answer to a request whose pasteContent returned false
PasteFailure(info) == [Failure(PasteFailed) EXCEPT !.activeElementInfo = info]

verifyPasteSuccess(expectedContent, els, k) ==
    IF k = NoElement THEN [verified |-> FALSE, reason |-> "no_element"]
    ELSE LET element == els[k]
             actualContent == IF isInput(element) THEN element.value
                              ELSE IF isContentEditable(element) THEN elementText(element)
                              ELSE ""
             contentMatches == includes(actualContent, prefix(expectedContent, VerifyLength))
         IN [verified |-> contentMatches,
             reason |-> IF contentMatches THEN "content_found" ELSE "content_not_found"]

Success_onlyIfVerified(verification) ==
    [success |-> verification.verified, error |-> "", verified |-> verification.verified,
     reason |-> verification.reason, activeElementInfo |-> NoInfo]

Success(verification) ==
    [success |-> TRUE, error |-> "", verified |-> verification.verified,
     reason |-> verification.reason, activeElementInfo |-> NoInfo]

Ins(into, by, text, nodes) == [into |-> into, by |-> by, text |-> text, nodes |-> nodes]

\* ------------------------------------------------------------------------
\* PasteHandler.pasteContent: the search for a focusable element
\* ------------------------------------------------------------------------
focusableSelectors ==
    <<"input:not([disabled]):not([readonly])",
      "textarea:not([disabled]):not([readonly])",
      "[contenteditable=\"true\"]",
      "[contenteditable=\"\"]">>

matches(element, selector) ==
    CASE selector = focusableSelectors[1] ->
            element.tagName = "INPUT" /\ ~element.disabled /\ ~element.readOnly
      [] selector = focusableSelectors[2] ->
            element.tagName = "TEXTAREA" /\ ~element.disabled /\ ~element.readOnly
      [] selector = focusableSelectors[3] -> element.contenteditable = "true"
      [] selector = focusableSelectors[4] -> element.contenteditable = ""
      [] OTHER -> FALSE

indices(els) == [k \in 1..Len(els) |-> k]

querySelectorAll_selectorOrder(els, selectors) ==
    LET of(selector) == SelectSeq(indices(els), LAMBDA k : matches(els[k], selector))
    IN of(selectors[1]) \o of(selectors[2]) \o of(selectors[3]) \o of(selectors[4])

\* document.querySelectorAll(selectors.join(", ")): the elements that match
\* any of the selectors, in document order
querySelectorAll(els, selectors) ==
    SelectSeq(indices(els), LAMBDA k : \E n \in 1..Len(selectors) : matches(els[k], selectors[n]))

\* document.activeElement after els[k].focus()
focus(els, active, k) == IF els[k].focusable THEN k ELSE active

\* ------------------------------------------------------------------------
\* Steps of the executor
\* ------------------------------------------------------------------------
\* handleMessage / handlePasteRequest up to the call of pasteContent
handlePasteRequest(requests) ==
    /\ ppc = "idle" /\ UNCHANGED notPasteVars
    /\ \E r \in requests :
        /\ request' = r
        /\ IF r.content = ""
           THEN reply' = Failure(InvalidContent) /\ ppc' = "done"
           ELSE reply' = reply /\ ppc' = "pasteContent"
    /\ UNCHANGED <<handler, elements, activeElement, original, insertions, strategies,
                   locates, pasteSuccess>>

\* pasteContent without an active element: focus the first match, wait and
\* call pasteContent again
LocateFocusable ==
    /\ ppc = "pasteContent" /\ UNCHANGED notPasteVars
    /\ activeElement = NoElement
    /\ LET focusableElements == querySelectorAll(elements, focusableSelectors) IN
       IF Len(focusableElements) > 0
       THEN /\ activeElement' = focus(elements, activeElement, focusableElements[1])
            /\ locates' = IF locates < MaxLocates THEN locates + 1 ELSE locates
            /\ UNCHANGED <<ppc, pasteSuccess>>
       ELSE /\ pasteSuccess' = FALSE
            /\ ppc' = "respond"
            /\ UNCHANGED <<activeElement, locates>>
    /\ UNCHANGED <<handler, elements, original, request, insertions, strategies, reply>>

\* pasteContent with an active element, insertContent and, for an input or
\* (paste-handler.ts) a contentEditable element, the insertion itself
InsertContent ==
    /\ ppc = "pasteContent" /\ UNCHANGED notPasteVars
    /\ activeElement # NoElement
    /\ LET element == elements[activeElement]
           type == contentKind(request.content, request.contentType)
           content == IF handler = "safe" /\ type = "html"
                      THEN sanitizeHTML(markupOf(request.content))
                      ELSE markupOf(request.content)
       IN IF isInput(element)
          THEN LET r == pasteToInput(handler, element, content.text, type) IN
               /\ elements' = [elements EXCEPT ![activeElement] = r.element]
               /\ insertions' = IF r.changed
                                THEN Append(insertions, Ins(activeElement, "pasteToInput", r.text, <<>>))
                                ELSE insertions
               /\ pasteSuccess' = r.ok
               /\ ppc' = "respond"
          ELSE IF isContentEditable(element)
          THEN IF handler = "main"
               THEN /\ ppc' = "execCommand"
                    /\ UNCHANGED <<elements, insertions, pasteSuccess>>
               ELSE LET r == insertNode(handler, element, content, type) IN
                    /\ elements' = [elements EXCEPT ![activeElement] = r.element]
                    /\ insertions' = IF r.nodes # <<>>
                                     THEN Append(insertions, Ins(activeElement, "insertNode", "", r.nodes))
                                     ELSE insertions
                    /\ pasteSuccess' = r.ok
                    /\ ppc' = "respond"
          ELSE /\ pasteSuccess' = FALSE
               /\ ppc' = "respond"
               /\ UNCHANGED <<elements, insertions>>
    /\ UNCHANGED <<handler, activeElement, original, request, strategies, locates, reply>>

\* the element takes the text from the browser: execCommand("insertText")
\* inserts the characters of the content, never markup
nativeInsertText(element, content) == [element EXCEPT !.childNodes = @ \o <<Text(content)>>]

dispatch(element, events) == [element EXCEPT !.events = @ \o events]

ExecCommandInsertText_fallsThrough ==
    /\ ppc = "execCommand" /\ UNCHANGED notPasteVars
    /\ \E outcome \in {"unsupported", "refused", "inserted"} :
        LET element == elements[activeElement] IN
        /\ strategies' = IF outcome = "unsupported" THEN strategies
                         ELSE Append(strategies, "execCommand")
        /\ IF outcome = "inserted"
           THEN /\ elements' = [elements EXCEPT ![activeElement] =
                        dispatch(nativeInsertText(element, request.content),
                                 triggerInputEvents(handler, element))]
                /\ insertions' = Append(insertions,
                        Ins(activeElement, "execCommand", "", <<Text(request.content)>>))
                /\ pasteSuccess' = TRUE
                /\ ppc' = "inputEvents"
           ELSE /\ ppc' = "inputEvents"
                /\ UNCHANGED <<elements, insertions, pasteSuccess>>
    /\ UNCHANGED <<handler, activeElement, original, request, locates, reply>>

\* pasteToContentEditable, first strategy: execCommand("insertText")
ExecCommandInsertText ==
    /\ ppc = "execCommand" /\ UNCHANGED notPasteVars
    /\ \E outcome \in {"unsupported", "refused", "inserted"} :
        LET element == elements[activeElement] IN
        /\ strategies' = IF outcome = "unsupported" THEN strategies
                         ELSE Append(strategies, "execCommand")
        /\ IF outcome = "inserted"
           THEN /\ elements' = [elements EXCEPT ![activeElement] =
                        dispatch(nativeInsertText(element, request.content),
                                 triggerInputEvents(handler, element))]
                /\ insertions' = Append(insertions,
                        Ins(activeElement, "execCommand", "", <<Text(request.content)>>))
                /\ pasteSuccess' = TRUE
                /\ ppc' = "respond"
           ELSE /\ ppc' = "inputEvents"
                /\ UNCHANGED <<elements, insertions, pasteSuccess>>
    /\ UNCHANGED <<handler, activeElement, original, request, locates, reply>>

\* second strategy: beforeinput, execCommand("insertText"), input
InputEventsInsertText ==
    /\ ppc = "inputEvents" /\ UNCHANGED notPasteVars
    /\ \E outcome \in {"unavailable", "cancelled", "refused", "inserted"} :
        LET element == IF outcome = "unavailable" THEN elements[activeElement]
                       ELSE dispatch(elements[activeElement], <<"beforeinput">>)
        IN
        /\ strategies' = IF outcome = "unavailable" THEN strategies
                         ELSE Append(strategies, "inputEvents")
        /\ IF outcome = "inserted"
           THEN /\ elements' = [elements EXCEPT ![activeElement] =
                        dispatch(nativeInsertText(element, request.content),
                                 <<"input">> \o triggerInputEvents(handler, element))]
                /\ insertions' = Append(insertions,
                        Ins(activeElement, "inputEvents", "", <<Text(request.content)>>))
                /\ pasteSuccess' = TRUE
                /\ ppc' = "respond"
           ELSE /\ elements' = [elements EXCEPT ![activeElement] = element]
                /\ ppc' = "clipboard"
                /\ UNCHANGED <<insertions, pasteSuccess>>
    /\ UNCHANGED <<handler, activeElement, original, request, locates, reply>>

\* third strategy: clipboard.writeText, a synthetic paste event that the page
\* may handle by inserting the text it reads from the event, and the check
\* that the element's text contains the start of the content
ClipboardPaste ==
    /\ ppc = "clipboard" /\ UNCHANGED notPasteVars
    /\ \E outcome \in {"unavailable", "rejected", "ignored", "handled"} :
        LET element == elements[activeElement]
            pasted == IF outcome = "handled" THEN nativeInsertText(element, request.content)
                      ELSE element
            after == dispatch(pasted, <<"paste">> \o triggerInputEvents(handler, element))
        IN
        IF outcome \in {"unavailable", "rejected"}
        THEN /\ strategies' = IF outcome = "unavailable" THEN strategies
                              ELSE Append(strategies, "clipboard")
             /\ ppc' = "fallback"
             /\ UNCHANGED <<elements, insertions, pasteSuccess>>
        ELSE /\ strategies' = Append(strategies, "clipboard")
             /\ elements' = [elements EXCEPT ![activeElement] = after]
             /\ insertions' = IF outcome = "handled"
                              THEN Append(insertions,
                                      Ins(activeElement, "page", "", <<Text(request.content)>>))
                              ELSE insertions
             /\ IF includes(elementText(after), prefix(request.content, ClipboardCheckLength))
                THEN pasteSuccess' = TRUE /\ ppc' = "respond"
                ELSE pasteSuccess' = pasteSuccess /\ ppc' = "fallback"
    /\ UNCHANGED <<handler, activeElement, original, request, locates, reply>>

\* last strategy: fallbackPasteToContentEditable
FallbackPaste ==
    /\ ppc = "fallback" /\ UNCHANGED notPasteVars
    /\ LET element == elements[activeElement]
           type == contentKind(request.content, request.contentType)
           r == insertNode(handler, element, markupOf(request.content), type)
       IN /\ elements' = [elements EXCEPT ![activeElement] = r.element]
          /\ insertions' = IF r.nodes # <<>>
                           THEN Append(insertions, Ins(activeElement, "insertNode", "", r.nodes))
                           ELSE insertions
          /\ pasteSuccess' = r.ok
    /\ strategies' = Append(strategies, "fallback")
    /\ ppc' = "respond"
    /\ UNCHANGED <<handler, activeElement, original, request, locates, reply>>

\* handlePasteRequest after pasteContent has returned
Respond ==
    /\ ppc = "respond" /\ UNCHANGED notPasteVars
    /\ reply' = IF pasteSuccess
                THEN Success(verifyPasteSuccess(request.content, elements, activeElement))
                ELSE PasteFailure(getActiveElementInfo(elements, activeElement))
    /\ ppc' = "done"
    /\ UNCHANGED <<handler, elements, activeElement, original, request, insertions,
                   strategies, locates, pasteSuccess>>

HandlePasteRequest == handlePasteRequest(PasteRequests)

HandleImageRequest == handlePasteRequest(ImageRequests)

NextPaste ==
    \/ HandlePasteRequest
    \/ LocateFocusable
    \/ InsertContent
    \/ ExecCommandInsertText
    \/ InputEventsInsertText
    \/ ClipboardPaste
    \/ FallbackPaste
    \/ Respond

NextImage ==
    \/ HandleImageRequest
    \/ LocateFocusable
    \/ InsertContent
    \/ ExecCommandInsertText
    \/ InputEventsInsertText
    \/ ClipboardPaste
    \/ FallbackPaste
    \/ Respond

PasteOff ==
    /\ handler = "off"
    /\ elements = <<>>
    /\ activeElement = NoElement
    /\ original = [elements |-> <<>>, activeElement |-> NoElement]
    /\ ppc = "off"
    /\ request = NoRequest
    /\ insertions = <<>>
    /\ strategies = <<>>
    /\ locates = 0
    /\ pasteSuccess = FALSE
    /\ reply = NoReply

PasteIdle ==
    /\ handler \in {"main", "safe"}
    /\ elements \in Pages
    /\ activeElement \in {NoElement} \cup {k \in 1..Len(elements) : MayBeActive(elements[k])}
    /\ original = [elements |-> elements, activeElement |-> activeElement]
    /\ ppc = "idle"
    /\ request = NoRequest
    /\ insertions = <<>>
    /\ strategies = <<>>
    /\ locates = 0
    /\ pasteSuccess = FALSE
    /\ reply = NoReply

\* ------------------------------------------------------------------------
\* Popup (Popup.tsx) over ClipboardStorage (clipboard-storage.ts)
\* ------------------------------------------------------------------------
MaxCreated == 2

KeptItems == 999

NoFolder == 0

NoSelection == [id |-> 0, content |-> "", folderId |-> NoFolder, isFavorite |-> FALSE]

EditedContents == {"first", "second"}

ClipboardItem(id, content, folderId, isFavorite) ==
    [id |-> id, content |-> content, folderId |-> folderId, isFavorite |-> isFavorite]

ClipboardFolder(id, children) == [id |-> id, children |-> children]

Min(a, b) == IF a < b THEN a ELSE b

\* Array.prototype.map and Array.prototype.filter
map(list, f(_)) == [k \in 1..Len(list) |-> f(list[k])]

filter(list, keep(_)) == SelectSeq(list, keep)

\* ClipboardStorage.getClipboardItems / getClipboardFolders: what is stored,
\* or [] when the read fails
getClipboardItems == {storedItems, <<>>}

getClipboardFolders == {storedFolders, <<>>}

\* [newItem, ...items.slice(0, 999)]
prepend(newItem, list) == <<newItem>> \o SubSeq(list, 1, Min(Len(list), KeptItems))

\* the ids of all folders of a tree
RECURSIVE folderIds(_)
folderIds(folderList) ==
    IF folderList = <<>> THEN {}
    ELSE {Head(folderList).id} \cup folderIds(Head(folderList).children)
            \cup folderIds(Tail(folderList))

RECURSIVE addToParent(_, _, _)
addToParent(folderList, parentId, newFolder) ==
    IF folderList = <<>> THEN <<>>
    ELSE LET folder == Head(folderList)
             updated ==
                IF folder.id = parentId
                THEN [folder EXCEPT !.children = Append(folder.children, newFolder)]
                ELSE [folder EXCEPT !.children = addToParent(folder.children, parentId, newFolder)]
         IN <<updated>> \o addToParent(Tail(folderList), parentId, newFolder)

RECURSIVE removeFolder(_, _)
removeFolder(folderList, id) ==
    IF folderList = <<>> THEN <<>>
    ELSE LET folder == Head(folderList)
             rest == removeFolder(Tail(folderList), id)
         IN IF folder.id = id THEN rest
            ELSE <<[folder EXCEPT !.children = removeFolder(folder.children, id)]>> \o rest

\* { ...item, ...updates } for the item id: the viewer's edit sends title,
\* content and size only
updateItem(list, id, content) ==
    map(list, LAMBDA item : IF item.id = id THEN [item EXCEPT !.content = content] ELSE item)

toggleFavorite_keepsOthers(list, id) ==
    map(list, LAMBDA item : IF item.id = id THEN [item EXCEPT !.isFavorite = ~item.isFavorite]
                            ELSE item)

\* items.map(item => ({...item, isFavorite: item.id === id ? !item.isFavorite : false}))
toggleFavorite(list, id) ==
    map(list, LAMBDA item : [item EXCEPT !.isFavorite = IF item.id = id THEN ~item.isFavorite
                                                        ELSE FALSE])

itemIds(list) == {list[k].id : k \in 1..Len(list)}

favorites(list) == {list[k].id : k \in {n \in 1..Len(list) : list[n].isFavorite}}

\* an operation of the Popup: its name, the id it was given, whether its save
\* went through and, for a toggle, the favorites of the list it started from
Op(name, id, saved) == [name |-> name, id |-> id, saved |-> saved, before |-> {}]

\* loadClipboardData, given what the two reads returned
loaded(loadedFolders, loadedItems) ==
    /\ popupFolders' = loadedFolders
    /\ popupItems' = loadedItems
    /\ selectedItem' = IF selectedItem.id \in itemIds(loadedItems) THEN selectedItem
                       ELSE NoSelection

\* the Refresh button
LoadClipboardData ==
    /\ UNCHANGED notPopupVars
    /\ \E loadedFolders \in getClipboardFolders, loadedItems \in getClipboardItems :
        loaded(loadedFolders, loadedItems)
    /\ lastOp' = Op("load", 0, FALSE)
    /\ UNCHANGED <<storedItems, storedFolders, created>>

handleSelectItem ==
    /\ UNCHANGED notPopupVars
    /\ \E k \in 1..Len(popupItems) : selectedItem' = popupItems[k]
    /\ lastOp' = Op("select", selectedItem'.id, FALSE)
    /\ UNCHANGED <<popupItems, popupFolders, storedItems, storedFolders, created>>

\* handleCreateItem -> addClipboardItem -> ClipboardStorage.addClipboardItem
handleCreateItem ==
    /\ UNCHANGED notPopupVars
    /\ created < MaxCreated
    /\ \E content \in EditedContents, folderId \in {NoFolder} \cup folderIds(popupFolders),
          read \in getClipboardItems, saved \in BOOLEAN :
        LET newItem == ClipboardItem(created + 1, content, folderId, FALSE) IN
        /\ created' = created + 1
        /\ lastOp' = Op("create", newItem.id, saved)
        /\ IF saved
           THEN /\ storedItems' = prepend(newItem, read)
                /\ popupItems' = prepend(newItem, popupItems)
                /\ selectedItem' = newItem
           ELSE UNCHANGED <<storedItems, popupItems, selectedItem>>
    /\ UNCHANGED <<popupFolders, storedFolders>>

\* handleDeleteItem -> ClipboardStorage.deleteClipboardItem
handleDeleteItem ==
    /\ UNCHANGED notPopupVars
    /\ \E id \in itemIds(popupItems), read \in getClipboardItems, saved \in BOOLEAN :
        /\ lastOp' = Op("delete", id, saved)
        /\ IF saved
           THEN /\ storedItems' = filter(read, LAMBDA item : item.id # id)
                /\ popupItems' = filter(popupItems, LAMBDA item : item.id # id)
                /\ selectedItem' = IF selectedItem.id = id THEN NoSelection ELSE selectedItem
           ELSE UNCHANGED <<storedItems, popupItems, selectedItem>>
    /\ UNCHANGED <<popupFolders, storedFolders, created>>

\* handleCreateFolder -> ClipboardStorage.createFolder, then loadClipboardData
handleCreateFolder ==
    /\ UNCHANGED notPopupVars
    /\ created < MaxCreated
    /\ \E parentId \in {NoFolder} \cup folderIds(popupFolders),
          read \in getClipboardFolders, saved \in BOOLEAN :
        LET newFolder == ClipboardFolder(created + 1, <<>>) IN
        /\ created' = created + 1
        /\ lastOp' = Op("createFolder", newFolder.id, saved)
        /\ IF saved
           THEN /\ storedFolders' = IF parentId # NoFolder
                                    THEN addToParent(read, parentId, newFolder)
                                    ELSE Append(read, newFolder)
                /\ \E loadedFolders \in {storedFolders', <<>>}, loadedItems \in getClipboardItems :
                        loaded(loadedFolders, loadedItems)
           ELSE UNCHANGED <<storedFolders, popupFolders, popupItems, selectedItem>>
    /\ UNCHANGED storedItems

\* handleDeleteFolder -> ClipboardStorage.deleteFolder, then loadClipboardData:
\* the folders are saved first, the items without the folder's items second
handleDeleteFolder ==
    /\ UNCHANGED notPopupVars
    /\ \E id \in folderIds(popupFolders), readFolders \in getClipboardFolders,
          readItems \in getClipboardItems, savedFolders \in BOOLEAN, savedItems \in BOOLEAN :
        /\ lastOp' = Op("deleteFolder", id, savedFolders /\ savedItems)
        /\ storedFolders' = IF savedFolders THEN removeFolder(readFolders, id) ELSE storedFolders
        /\ storedItems' = IF savedFolders /\ savedItems
                          THEN filter(readItems, LAMBDA item : item.folderId # id)
                          ELSE storedItems
        /\ IF savedFolders /\ savedItems
           THEN \E loadedFolders \in {storedFolders', <<>>}, loadedItems \in {storedItems', <<>>} :
                    loaded(loadedFolders, loadedItems)
           ELSE UNCHANGED <<popupFolders, popupItems, selectedItem>>
    /\ UNCHANGED created

\* handleUpdateItem, called by the viewer's handleSaveEdit for the selected
\* item when the edited content differs
handleUpdateItem ==
    /\ UNCHANGED notPopupVars
    /\ selectedItem # NoSelection
    /\ \E content \in EditedContents \ {selectedItem.content}, saved \in BOOLEAN :
        LET updatedItems == updateItem(popupItems, selectedItem.id, content) IN
        /\ lastOp' = Op("update", selectedItem.id, saved)
        /\ popupItems' = updatedItems
        /\ storedItems' = IF saved THEN updatedItems ELSE storedItems
        /\ selectedItem' = IF saved THEN [selectedItem EXCEPT !.content = content]
                           ELSE selectedItem
    /\ UNCHANGED <<popupFolders, storedFolders, created>>

\* handleToggleFavorite(id), from the tree's context menu or the viewer's star
handleToggleFavorite(id) ==
    /\ UNCHANGED notPopupVars
    /\ \E saved \in BOOLEAN :
        LET updatedItems == toggleFavorite(popupItems, id) IN
        /\ lastOp' = [Op("toggle", id, saved) EXCEPT !.before = favorites(popupItems)]
        /\ popupItems' = updatedItems
        /\ storedItems' = IF saved THEN updatedItems ELSE storedItems
        /\ selectedItem' = IF saved /\ selectedItem.id = id /\ selectedItem # NoSelection
                           THEN [selectedItem EXCEPT !.isFavorite = ~selectedItem.isFavorite]
                           ELSE selectedItem
    /\ UNCHANGED <<popupFolders, storedFolders, created>>

ToggleFavorite ==
    \E id \in itemIds(popupItems) \cup ({selectedItem.id} \ {0}) : handleToggleFavorite(id)

NextPopup ==
    \/ LoadClipboardData
    \/ handleSelectItem
    \/ handleCreateItem
    \/ handleDeleteItem
    \/ handleCreateFolder
    \/ handleDeleteFolder
    \/ handleUpdateItem
    \/ ToggleFavorite

PopupOff ==
    /\ popupItems = <<>> /\ popupFolders = <<>> /\ selectedItem = NoSelection
    /\ storedItems = <<>> /\ storedFolders = <<>>
    /\ created = 0
    /\ lastOp = Op("off", 0, FALSE)

\* the popup mounted over an empty collection
PopupMounted ==
    /\ popupItems = <<>> /\ popupFolders = <<>> /\ selectedItem = NoSelection
    /\ storedItems = <<>> /\ storedFolders = <<>>
    /\ created = 0
    /\ lastOp = Op("load", 0, FALSE)

\* a stored collection made earlier: a folder, a folder inside it, and an item
\* in each of the two
NestedFolders == <<ClipboardFolder(11, <<ClipboardFolder(12, <<>>)>>)>>

NestedItems == <<ClipboardItem(13, "first", 11, FALSE), ClipboardItem(14, "second", 12, FALSE)>>

\* the popup mounted over that collection
PopupMountedOverFolders ==
    /\ popupItems = NestedItems /\ popupFolders = NestedFolders /\ selectedItem = NoSelection
    /\ storedItems = NestedItems /\ storedFolders = NestedFolders
    /\ created = 0
    /\ lastOp = Op("load", 0, FALSE)

\* ------------------------------------------------------------------------
\* Calls of ClipboardStorage on the items key that overlap at their awaits
\* (clipboard-storage.ts)
\* ------------------------------------------------------------------------
\* the calls that can be under way at once
Calls == {"first", "second"}

NoCall == [name |-> "none", id |-> 0]

NoEffects == [added |-> {}, deleted |-> {}, failedRead |-> FALSE]

notStoreVars == <<msgVars, sanVars, pasteVars, detectVars, tabVars,
                  popupItems, popupFolders, selectedItem, storedFolders, lastOp>>

\* addClipboardItem up to its first await: newItem is built, getClipboardItems
\* is called
CallAddClipboardItem(c) ==
    /\ UNCHANGED notStoreVars
    /\ callPc[c] = "idle"
    /\ created < MaxCreated
    /\ created' = created + 1
    /\ callOp' = [callOp EXCEPT ![c] = [name |-> "add", id |-> created + 1]]
    /\ callPc' = [callPc EXCEPT ![c] = "reading"]
    /\ UNCHANGED <<callItems, effects, storedItems>>

\* deleteClipboardItem(id) up to its first await, for an item that is stored
CallDeleteClipboardItem(c) ==
    /\ UNCHANGED notStoreVars
    /\ callPc[c] = "idle"
    /\ \E id \in itemIds(storedItems) :
        callOp' = [callOp EXCEPT ![c] = [name |-> "delete", id |-> id]]
    /\ callPc' = [callPc EXCEPT ![c] = "reading"]
    /\ UNCHANGED <<callItems, effects, storedItems, created>>

\* const items = await this.getClipboardItems()
ReadItems(c) ==
    /\ UNCHANGED notStoreVars
    /\ callPc[c] = "reading"
    /\ \E read \in getClipboardItems :
        /\ callItems' = [callItems EXCEPT ![c] = read]
        /\ effects' = [effects EXCEPT !.failedRead = @ \/ read # storedItems]
    /\ callPc' = [callPc EXCEPT ![c] = "saving"]
    /\ UNCHANGED <<callOp, storedItems, created>>

\* updatedItems of the call, from the items it read
updatedItems(c) ==
    IF callOp[c].name = "add"
    THEN prepend(ClipboardItem(callOp[c].id, "first", NoFolder, FALSE), callItems[c])
    ELSE filter(callItems[c], LAMBDA item : item.id # callOp[c].id)

\* await this.saveClipboardItems(updatedItems) and the return; a save that
\* throws ends the call with storage as it was
SaveItems(c) ==
    /\ UNCHANGED notStoreVars
    /\ callPc[c] = "saving"
    /\ \E saved \in BOOLEAN :
        IF saved
        THEN /\ storedItems' = updatedItems(c)
             /\ effects' = IF callOp[c].name = "add"
                           THEN [effects EXCEPT !.added = @ \cup {callOp[c].id}]
                           ELSE [effects EXCEPT !.deleted = @ \cup {callOp[c].id}]
        ELSE UNCHANGED <<storedItems, effects>>
    /\ callPc' = [callPc EXCEPT ![c] = "idle"]
    /\ callOp' = [callOp EXCEPT ![c] = NoCall]
    /\ callItems' = [callItems EXCEPT ![c] = <<>>]
    /\ UNCHANGED created

NextStore ==
    \/ \E c \in Calls : CallAddClipboardItem(c)
    \/ \E c \in Calls : CallDeleteClipboardItem(c)
    \/ \E c \in Calls : ReadItems(c)
    \/ \E c \in Calls : SaveItems(c)

StoreOff ==
    /\ callPc = [c \in Calls |-> "idle"]
    /\ callOp = [c \in Calls |-> NoCall]
    /\ callItems = [c \in Calls |-> <<>>]
    /\ effects = NoEffects

\* ------------------------------------------------------------------------
\* detectContentType (CreateClipboardItemModal.tsx, useClipboard.ts)
\* ------------------------------------------------------------------------
MaxTokens == 2

Tokens == {"data:image/", "http://", "ftp://", "<", ">", "</", "<p", "<html", "a", " "}

RECURSIVE Typed(_)
Typed(n) == IF n = 0 THEN {""} ELSE {token \o rest : token \in Tokens, rest \in Typed(n - 1)}

\* what the user typed or copied: up to MaxTokens tokens, not blank
DetectInputs == {content \in UNION {Typed(n) : n \in 1..MaxTokens} : trim(content) # ""}

\* detectContentType of CreateClipboardItemModal
detectContentType(content) ==
    LET trimmedContent == trim(content) IN
    IF startsWith(trimmedContent, "data:image/") THEN "image"
    ELSE IF \/ startsWith(trimmedContent, "http://")
            \/ startsWith(trimmedContent, "https://")
            \/ startsWith(trimmedContent, "ftp://")
    THEN "url"
    ELSE IF /\ includes(trimmedContent, "<")
            /\ includes(trimmedContent, ">")
            /\ \/ includes(trimmedContent, "<html")
               \/ includes(trimmedContent, "</")
               \/ includes(trimmedContent, "<div")
               \/ includes(trimmedContent, "<p")
               \/ includes(trimmedContent, "<span")
    THEN "html"
    ELSE "text"

\* detectContentType of useClipboard.captureFromClipboard
captureDetectContentType(content) ==
    IF startsWith(content, "data:image/") THEN "image"
    ELSE IF startsWith(content, "http://") \/ startsWith(content, "https://") THEN "url"
    ELSE IF includes(content, "<") /\ includes(content, ">") THEN "html"
    ELSE "text"

DetectOff == detector = "off" /\ typed = "" /\ detectedType = "none"

InitDetect ==
    /\ detector \in {"modal", "hook"}
    /\ typed \in DetectInputs
    /\ detectedType = "none"

\* the modal's effect on a content change, or captureFromClipboard
DetectContentType ==
    /\ detectedType = "none" /\ UNCHANGED notDetectVars
    /\ detectedType' = IF detector = "modal" THEN detectContentType(typed)
                       ELSE captureDetectContentType(typed)
    /\ UNCHANGED <<detector, typed>>

NextDetect == DetectContentType

\* ------------------------------------------------------------------------
\* The initiator (service-worker.ts) and the page of the tab it sends to: every
\* load of content-main.js registers one more listener, every listener handles
\* every message, and the first sendResponse is the answer. The page holds no
\* contentEditable element, so pasteToContentEditable takes no step; the race
\* of sendMessageToTab is decided when the listeners have handled the message
\* (an answer that comes in time, or after the timer, or is lost).
\* ------------------------------------------------------------------------
MaxListeners == 2

TabMessages ==
    {[action |-> "pasteClipboardItem", content |-> c, contentType |-> "text", itemId |-> "id1"]
        : c \in Contents}

TabElements ==
    {InputElement("INPUT", FALSE, FALSE, TRUE, "", 0, 0),
     InputElement("TEXTAREA", FALSE, TRUE, TRUE, "abcd", 1, 3),
     DivElement(NoAttribute, <<>>)}

\* the answer the initiator gets: the first one sent
firstAnswer == IF answer # NoReply THEN answer ELSE reply

\* a call of sendMessageToTab(tabId, m) for a paste
TabCall ==
    /\ pc = "idle" /\ cmd = "none"
    /\ \E m \in TabMessages : message' = m
    /\ i' = 0
    /\ pc' = "loop"
    /\ log' = Append(log, Ev("call", 0, 0, "", NoMsg))
    /\ UNCHANGED <<impl, response, cmd, clipboardItems, favoriteItem, activeTab, cmdResult>>
    /\ UNCHANGED <<pasteVars, tabVars, notTabVars>>

\* isContentScriptInjected: without a listener the ping is rejected; a listener
\* answers success:true, in time or after the 1 s timer
TabPing ==
    /\ pc = "ping"
    /\ \E o \in PingOutcomes :
        /\ IF listeners = 0 THEN o = "channel_error"
           ELSE o = "pong" \/ (o = "timeout" /\ listeners < MaxListeners)
        /\ log' = Append(log, Ev("transmit", i + 1, IF o = "timeout" THEN PingTimeout ELSE 0, o, PingMsg))
        /\ pc' = IF isInjected(o) THEN "send" ELSE "inject"
    /\ UNCHANGED <<impl, i, message, response, cmd, clipboardItems, favoriteItem, activeTab, cmdResult>>
    /\ UNCHANGED <<pasteVars, tabVars, notTabVars>>

\* injectContentScript: executeScript runs content-main.js in the page, whose
\* ContentScriptMain adds its listener
TabInject ==
    /\ pc = "inject"
    /\ \E o \in InjectOutcomes :
        IF o = "ok"
        THEN /\ log' = Append(log, Ev("inject", i + 1, 0, "", NoMsg))
             /\ pc' = "settle"
             /\ listeners' = listeners + 1
             /\ UNCHANGED <<impl, i, message, response, cmd, clipboardItems, favoriteItem, activeTab, cmdResult>>
        ELSE /\ Catch(Append(log, Ev("inject", i + 1, 0, "", NoMsg)), "inject_error", 0)
             /\ UNCHANGED listeners
    /\ UNCHANGED <<pasteVars, waiting, inserted, answer, notTabVars>>

\* tabs.sendMessage(tabId, finalMessage) and the arrival of the message in the
\* page: handleMessage / handlePasteRequest of the first listener up to the
\* call of pasteContent
TabSend ==
    /\ pc = "send" /\ listeners > 0
    /\ ppc \in {"idle", "done"} /\ waiting = 0
    /\ log' = Append(log, Ev("transmit", i + 1, 0, "", finalMessage(message)))
    /\ pc' = "await"
    /\ request' = finalMessage(message)
    /\ IF finalMessage(message).content = ""
       THEN reply' = Failure(InvalidContent) /\ ppc' = "done"
       ELSE reply' = NoReply /\ ppc' = "pasteContent"
    /\ original' = [elements |-> elements, activeElement |-> activeElement]
    /\ insertions' = <<>> /\ strategies' = <<>> /\ locates' = 0 /\ pasteSuccess' = FALSE
    /\ inserted' = inserted + Len(insertions)
    /\ waiting' = listeners - 1
    /\ answer' = NoReply
    /\ UNCHANGED <<impl, i, message, response, cmd, clipboardItems, favoriteItem, activeTab, cmdResult>>
    /\ UNCHANGED <<handler, elements, activeElement, listeners, notTabVars>>

\* the next listener handles the same message; its sendResponse comes second
NextListener ==
    /\ ppc = "done" /\ waiting > 0
    /\ waiting' = waiting - 1
    /\ answer' = firstAnswer
    /\ inserted' = inserted + Len(insertions)
    /\ insertions' = <<>> /\ strategies' = <<>> /\ locates' = 0 /\ pasteSuccess' = FALSE
    /\ ppc' = IF request.content = "" THEN "done" ELSE "pasteContent"
    /\ UNCHANGED <<handler, elements, activeElement, original, request, reply, listeners>>
    /\ UNCHANGED <<msgVars, notTabVars>>

\* the race of sendMessageToTab: the first answer of the page, a rejected
\* sendMessage, or the 5 s timer
TabReceive ==
    /\ pc = "await" /\ ppc = "done" /\ waiting = 0
    /\ \E o \in SendOutcomes(impl) :
        CASE o = "success" ->
                /\ firstAnswer.success
                /\ response' = "success"
                /\ pc' = "returned"
                /\ log' = Append(log, Ev("succeeded", i + 1, 0, "", NoMsg))
                /\ UNCHANGED <<impl, i, message, cmd, clipboardItems, favoriteItem, activeTab, cmdResult>>
          [] o = "success_false" ->
                /\ ~firstAnswer.success
                /\ log' = Append(log, Ev("failed", i + 1, 0, o, NoMsg))
                /\ i' = i + 1
                /\ pc' = "loop"
                /\ UNCHANGED <<impl, message, response, cmd, clipboardItems, favoriteItem, activeTab, cmdResult>>
          [] o = "timeout" -> Catch(log, o, MessageTimeout)
          [] OTHER -> Catch(log, o, 0)
    /\ UNCHANGED <<pasteVars, tabVars, notTabVars>>

NextTab ==
    \/ TabCall
    \/ LoopHead
    \/ TabPing
    \/ TabInject
    \/ Settle
    \/ TabSend
    \/ TabReceive
    \/ BackoffWait
    \/ LocateFocusable
    \/ InsertContent
    \/ Respond
    \/ NextListener

TabOff == listeners = 0 /\ waiting = 0 /\ inserted = 0 /\ answer = NoReply

\* a tab whose page holds one element, focused or not, and may already run
\* the content script
TabOpen ==
    /\ listeners \in {0, 1} /\ waiting = 0 /\ inserted = 0 /\ answer = NoReply
    /\ handler = "main"
    /\ \E element \in TabElements : elements = <<element>>
    /\ activeElement \in {NoElement, 1}
    /\ original = [elements |-> elements, activeElement |-> activeElement]
    /\ ppc = "idle"
    /\ request = NoRequest
    /\ insertions = <<>>
    /\ strategies = <<>>
    /\ locates = 0
    /\ pasteSuccess = FALSE
    /\ reply = NoReply

\* ------------------------------------------------------------------------
\* Specification of the initiator
\* ------------------------------------------------------------------------
MsgIdle ==
    /\ impl \in {"sw", "csm"}
    /\ pc = "idle"
    /\ i = 0
    /\ message = NoMsg
    /\ response = "none"
    /\ log = <<>>
    /\ cmd = "none"
    /\ clipboardItems = <<>>
    /\ favoriteItem = NoItem
    /\ activeTab = NoTab
    /\ cmdResult = [success |-> FALSE, reason |-> "none"]

InitMsg == MsgIdle /\ SanOff /\ PasteOff /\ PopupOff /\ DetectOff /\ TabOff /\ StoreOff

NextMsg ==
    \/ CallSendMessageToTab
    \/ HandlePasteFavoriteCommand
    \/ LoopHead
    \/ Ping
    \/ Inject
    \/ Settle
    \/ Send
    \/ Receive
    \/ BackoffWait
    \/ CommandFinish

SpecMsg == InitMsg /\ [][NextMsg]_vars

InitSanitizer == InitSan /\ MsgIdle /\ impl = "sw" /\ PasteOff /\ PopupOff /\ DetectOff /\ TabOff /\ StoreOff

SpecSan == InitSanitizer /\ [][NextSan]_vars

InitPaste == PasteIdle /\ MsgIdle /\ impl = "sw" /\ SanOff /\ PopupOff /\ DetectOff /\ TabOff /\ StoreOff

SpecPaste == InitPaste /\ [][NextPaste]_vars

SpecImage == InitPaste /\ [][NextImage]_vars

InitPopup == PopupMounted /\ MsgIdle /\ impl = "sw" /\ SanOff /\ PasteOff /\ DetectOff /\ TabOff /\ StoreOff

SpecPopup == InitPopup /\ [][NextPopup]_vars

InitPopupOverFolders ==
    PopupMountedOverFolders /\ MsgIdle /\ impl = "sw" /\ SanOff /\ PasteOff /\ DetectOff /\ TabOff /\ StoreOff

\* a session of the Popup in which the user works on the folders
NextFolders ==
    \/ LoadClipboardData
    \/ handleSelectItem
    \/ handleCreateFolder
    \/ handleDeleteFolder

SpecPopupOverFolders == InitPopupOverFolders /\ [][NextFolders]_vars

InitDetector == InitDetect /\ MsgIdle /\ impl = "sw" /\ SanOff /\ PasteOff /\ PopupOff /\ TabOff /\ StoreOff

SpecDetect == InitDetector /\ [][NextDetect]_vars

InitStore == PopupMounted /\ StoreOff /\ MsgIdle /\ impl = "sw" /\ SanOff /\ PasteOff /\ DetectOff /\ TabOff

SpecStore == InitStore /\ [][NextStore]_vars

InitTab == MsgIdle /\ impl = "sw" /\ TabOpen /\ SanOff /\ PopupOff /\ DetectOff /\ StoreOff

SpecTab == InitTab /\ [][NextTab]_vars

\* WF: the event loop runs every ready continuation and every timer fires, so a
\* started call keeps taking its next step (each attempt produces an outcome)
SpecMsgFair ==
    InitMsg /\ [][NextMsg]_vars
            /\ WF_vars(LoopHead \/ Ping \/ Inject \/ Settle \/ Send \/ Receive \/ BackoffWait \/ CommandFinish)

\* ------------------------------------------------------------------------
\* Properties of the initiator
\* ------------------------------------------------------------------------
EventsOf(e) == {k \in 1..Len(log) : log[k].ev = e}

AttemptCount == Cardinality(EventsOf("attempt"))

FailedCount == Cardinality(EventsOf("failed"))

\* C1: a call of sendMessageToTab whose every attempt fails makes exactly 3
\* attempts and then throws to its caller; there is never a 4th attempt, the
\* call returns only after a success answer, and every started call ends.
C1_RetryBudget ==
    /\ [](/\ AttemptCount <= 3
          /\ FailedCount <= AttemptCount
          /\ pc = "thrown" => (AttemptCount = 3 /\ FailedCount = 3 /\ EventsOf("succeeded") = {})
          /\ pc = "returned" => (log[Len(log)].ev = "succeeded" /\ FailedCount = AttemptCount - 1)
          /\ FailedCount = 3 => pc \in {"thrown", "loop"})
    /\ (pc # "idle") ~> (pc \in {"returned", "thrown"})

C1_Witness == pc = "thrown" /\ AttemptCount = 3 /\ FailedCount = 3

\* C2 as claimed: every attempt n+1 (n = 1, 2) is immediately preceded by a
\* backoff wait of 300 ms x n, whatever the kind of failure of attempt n.
C2_BackoffEveryFailure ==
    \A k \in EventsOf("attempt") :
        log[k].n >= 2 => (log[k - 1].ev = "wait" /\ log[k - 1].ms = 300 * (log[k].n - 1))

\* C2 amended: attempt n+1 follows either a thrown failure of attempt n and then a
\* wait (300 ms x n in service-worker.ts, a constant 300 ms in
\* content-script-manager.ts), or a success:false answer of attempt n with no
\* wait at all; and a wait only ever follows a thrown failure.
C2_BackoffAfterThrow ==
    /\ \A k \in EventsOf("attempt") :
        log[k].n >= 2 =>
            \/ /\ log[k - 1].ev = "wait"
               /\ log[k - 1].ms = (IF impl = "sw" THEN 300 * (log[k].n - 1) ELSE 300)
               /\ log[k - 2].ev = "failed" /\ log[k - 2].n = log[k].n - 1
               /\ log[k - 2].kind \in ThrownKinds
            \/ /\ log[k - 1].ev = "failed" /\ log[k - 1].n = log[k].n - 1
               /\ log[k - 1].kind = "success_false"
    /\ \A k \in EventsOf("wait") :
        log[k - 1].ev = "failed" /\ log[k - 1].kind \in ThrownKinds

C2_Witness ==
    /\ impl = "sw"
    /\ \E k \in EventsOf("attempt") :
        log[k].n = 2 /\ log[k - 1].ev = "failed" /\ log[k - 1].kind = "success_false"
    /\ \E k \in EventsOf("attempt") :
        log[k].n = 3 /\ log[k - 1].ev = "wait" /\ log[k - 1].ms = 600
                     /\ log[k - 2].kind = "timeout"

ClaimedSchemes ==
    {"chrome://", "chrome-extension://", "moz-extension://", "about:", "edge://",
     "safari-extension://", "resource://", "chrome-search://", "file://", "data:"}

HasNoContentUrl(tab) ==
    tab.present /\ (tab.url \in {NoUrl, ""} \/ \E p \in ClaimedSchemes : startsWith(tab.url, p))

NothingSent == log = <<>> /\ pc = "idle"

\* C3 as claimed: with an active tab that has no URL or a privileged URL the
\* command returns reason unsupported_tab and nothing is sent or injected.
C3_UnsupportedTabReason ==
    (cmd # "none" /\ HasNoContentUrl(activeTab)) =>
        (cmd = "done" /\ cmdResult = [success |-> FALSE, reason |-> "unsupported_tab"] /\ NothingSent)

HasUsableFavorite == favoriteItem # NoItem /\ favoriteItem.content \notin {"", NonString}

\* C3 amended: with such a tab the command never pings, injects, sends or
\* retries and returns success:false; the reason is unsupported_tab when the
\* store holds a favorite item with non-empty string content and the tab has
\* an id, and otherwise the reason of the earlier check that failed.
C3_UnsupportedTabGuard ==
    (cmd # "none" /\ HasNoContentUrl(activeTab)) =>
        /\ cmd = "done" /\ NothingSent /\ cmdResult.success = FALSE
        /\ (HasUsableFavorite /\ activeTab.id # 0) <=> (cmdResult.reason = "unsupported_tab")
        /\ cmdResult.reason \in {"no_items", "no_favorite", "invalid_content", "invalid_tab", "unsupported_tab"}

C3_Witness ==
    /\ cmd = "done" /\ cmdResult.reason = "unsupported_tab"
    /\ activeTab.url = "file:///home/a.txt" /\ NothingSent

\* C4: every message transmitted to the tab has an action other than
\* pasteClipboardItem; a paste message carries the caller's content, contentType
\* and itemId unchanged, pasteClipboardItem becomes pasteDirectValue and any
\* other action is kept, on every attempt.
C4_RewriteBeforeTransmit ==
    \A k \in EventsOf("transmit") :
        /\ log[k].msg.action # "pasteClipboardItem"
        /\ log[k].msg # PingMsg =>
            /\ log[k].msg.content = message.content
            /\ log[k].msg.contentType = message.contentType
            /\ log[k].msg.itemId = message.itemId
            /\ log[k].msg.action = (IF message.action = "pasteClipboardItem"
                                    THEN "pasteDirectValue" ELSE message.action)

C4_Witness ==
    /\ message.action = "pasteClipboardItem"
    /\ \E k \in EventsOf("transmit") : log[k].n = 3 /\ log[k].msg.action = "pasteDirectValue"
                                       /\ log[k].msg.content = "line1\nline2"

IsPing(e) == e.ev = "transmit" /\ e.msg = PingMsg

\* C15: every attempt starts with a ping that is given 1 second; the attempt
\* requests injection exactly when that ping did not bring success:true (it
\* timed out, the channel failed or the answer was not a success), and the
\* message of an attempt that injected is transmitted directly after the
\* 200 ms settle delay that follows the injection.
C15_PingThenInjectIfAbsent ==
    /\ \A k \in EventsOf("attempt") :
            k < Len(log) =>
                /\ IsPing(log[k + 1]) /\ log[k + 1].n = log[k].n
                /\ log[k + 1].kind \in {"pong", "not_success", "channel_error", "timeout"}
                /\ log[k + 1].ms = (IF log[k + 1].kind = "timeout" THEN 1000 ELSE 0)
    /\ \A k \in 1..(Len(log) - 1) :
            IsPing(log[k]) =>
                ((log[k + 1].ev = "inject" /\ log[k + 1].n = log[k].n) <=> log[k].kind # "pong")
    /\ \A k \in EventsOf("inject") : IsPing(log[k - 1]) /\ log[k - 1].n = log[k].n
    /\ \A k \in EventsOf("transmit") :
            (~IsPing(log[k]) /\ \E j \in EventsOf("inject") : log[j].n = log[k].n) =>
                /\ log[k - 1].ev = "settle" /\ log[k - 1].ms = 200 /\ log[k - 1].n = log[k].n
                /\ log[k - 2].ev = "inject" /\ log[k - 2].n = log[k].n

C15_Witness ==
    /\ \E k \in 1..Len(log) : IsPing(log[k]) /\ log[k].n = 1 /\ log[k].kind = "timeout"
    /\ \E k \in EventsOf("settle") : log[k].n = 1
    /\ \E k \in 1..Len(log) : IsPing(log[k]) /\ log[k].n = 2 /\ log[k].kind = "pong"
    /\ \E k \in EventsOf("transmit") : ~IsPing(log[k]) /\ log[k].n = 2

Terminal == pc \in {"returned", "thrown"}

MessageSentAfterPing ==
    \A k \in EventsOf("transmit") :
        ~IsPing(log[k]) => \E j \in 1..(k - 1) : IsPing(log[j]) /\ log[j].n = log[k].n

TerminalIsFinal ==
    [][Terminal => (pc' = pc /\ log' = log /\ i' = i /\ response' = response)]_vars

\* C16 as claimed: within an attempt the injection step precedes the liveness
\* ping, the message is sent only after the ping, and SUCCEEDED and FAILED are
\* terminal.
C16_InjectThenPing ==
    /\ [](/\ \A k \in 1..Len(log) :
                IsPing(log[k]) => \E j \in 1..(k - 1) : log[j].ev = "inject" /\ log[j].n = log[k].n
          /\ MessageSentAfterPing)
    /\ TerminalIsFinal

\* C16 amended: an attempt pings first, injects only after its ping (and only
\* when the ping found no executor), pings once only, and sends the message
\* after the ping and after the injection if there was one; a call ends in
\* exactly one of returned (after a success answer) or thrown, and takes no
\* step after either.
C16_PingThenInject ==
    /\ [](/\ \A k \in EventsOf("inject") :
                /\ \E j \in 1..(k - 1) : IsPing(log[j]) /\ log[j].n = log[k].n
                /\ ~\E j \in (k + 1)..Len(log) : IsPing(log[j]) /\ log[j].n = log[k].n
          /\ \A k \in EventsOf("transmit") :
                ~IsPing(log[k]) =>
                    ~\E j \in (k + 1)..Len(log) :
                        log[j].n = log[k].n /\ (IsPing(log[j]) \/ log[j].ev = "inject")
          /\ MessageSentAfterPing
          /\ pc = "returned" => (log[Len(log)].ev = "succeeded" /\ response = "success")
          /\ pc = "thrown" => (log[Len(log)].ev \in {"failed", "exhausted"}
                               /\ EventsOf("succeeded") = {} /\ response = "none"))
    /\ TerminalIsFinal

C16_Witness ==
    /\ pc = "returned" /\ Len(log) = 7
    /\ log[2].ev = "attempt" /\ IsPing(log[3]) /\ log[3].kind = "channel_error"
    /\ log[4].ev = "inject" /\ log[5].ev = "settle"
    /\ log[6].ev = "transmit" /\ log[6].msg.action = "pasteDirectValue"
    /\ log[7].ev = "succeeded"

FailureReasons ==
    {"no_items", "no_favorite", "invalid_content", "no_active_tab", "invalid_tab",
     "unsupported_tab", "paste_failed", "critical_error"}

\* C14: handlePasteFavoriteCommand always ends by returning a result and never
\* by throwing: the result is success:false with a reason for every failure
\* (also when sendMessageToTab threw after its last attempt), and success:true
\* only when the store held a usable favorite, the tab was supported and the
\* executor answered success:true to the paste message on attempt 1, 2 or 3.
C14_StructuredResult ==
    /\ [](/\ cmd \in {"none", "sending", "done"}
          /\ cmd = "done" =>
                /\ ~cmdResult.success => cmdResult.reason \in FailureReasons
                /\ (log = <<>> \/ pc = "thrown") => ~cmdResult.success
                /\ cmdResult.success =>
                    /\ HasUsableFavorite /\ activeTab.present /\ activeTab.id # 0
                    /\ isTabSupported(activeTab)
                    /\ AttemptCount <= 3
                    /\ \E k \in EventsOf("succeeded") :
                            /\ k = Len(log) /\ log[k].n \in 1..3
                            /\ \E t \in EventsOf("transmit") :
                                    log[t].n = log[k].n /\ log[t].msg = pasteMessage(favoriteItem))
    /\ (cmd = "sending") ~> (cmd = "done")

C14_Witness ==
    /\ cmd = "done" /\ pc = "thrown" /\ AttemptCount = 3
    /\ cmdResult = [success |-> FALSE, reason |-> "critical_error"]
    /\ \E k \in EventsOf("failed") : log[k].kind = "inject_error"
    /\ \E k \in EventsOf("failed") : log[k].kind = "success_false"

\* ------------------------------------------------------------------------
\* Properties of the executor
\* ------------------------------------------------------------------------
countOf(s, c) == Cardinality({k \in 1..Len(s) : SubSeq(s, k, k) = c})

countOfPairs(s, p) == Cardinality({k \in 1..(Len(s) - 1) : SubSeq(s, k, k + 1) = p})

InputInsertions == {n \in 1..Len(insertions) : insertions[n].by = "pasteToInput"}

NodeInsertions == {n \in 1..Len(insertions) : insertions[n].by = "insertNode"}

\* C5: when the content s of a text paste has line breaks, the text that
\* pasteToInput splices into an <input> is s with every \n and every \r\n
\* replaced by exactly one space (no line break is left in it), and the text it
\* splices into a <textarea> has as many \n as s.
C5_LineBreaksBySink ==
    \A n \in InputInsertions :
        LET s == request.content
            text == insertions[n].text
            sink == original.elements[insertions[n].into]
        IN (hasLineBreaks(s) /\ contentKind(s, request.contentType) = "text") =>
            /\ sink.tagName = "INPUT" =>
                /\ countOf(text, "\n") = 0
                /\ Len(text) = Len(s) - countOfPairs(s, "\r\n")
                /\ countOf(text, " ") = countOf(s, " ") + countOf(s, "\n")
            /\ sink.tagName = "TEXTAREA" => countOf(text, "\n") = countOf(s, "\n")

\* C6: after a successful pasteToInput into an element with old value v and
\* selection [start,end), the value is v[0..start) + c + v[end..) and both ends
\* of the selection are start + length(c), c being the inserted text (the
\* content itself for a text paste into a <textarea>); an empty <textarea>
\* with the caret at 0 that receives "line1\nline2" holds exactly that value
\* with the caret at 11.
C6_SpliceAndCaret ==
    /\ \A n \in InputInsertions :
        LET before == original.elements[insertions[n].into]
            after == elements[insertions[n].into]
            v == before.value
            start == before.selectionStart
            end == before.selectionEnd
            c == insertions[n].text
        IN pasteSuccess =>
            /\ after.value = SubSeq(v, 1, start) \o c \o SubSeq(v, end + 1, Len(v))
            /\ after.selectionStart = start + Len(c)
            /\ after.selectionEnd = start + Len(c)
            /\ (before.tagName = "TEXTAREA" /\ request.contentType = "text") => c = request.content
    /\ \A k \in 1..Len(elements) :
        (/\ ppc = "done"
         /\ activeElement = k
         /\ original.elements[k] = InputElement("TEXTAREA", FALSE, FALSE, TRUE, "", 0, 0)
         /\ request = PasteRequest("line1\nline2", "text")) =>
            /\ reply.success
            /\ elements[k].value = "line1\nline2"
            /\ elements[k].selectionStart = 11
            /\ elements[k].selectionEnd = 11

C6_Witness ==
    /\ ppc = "done" /\ reply.success /\ InputInsertions # {}
    /\ \E k \in 1..Len(elements) :
        /\ original.elements[k].value = "abcd"
        /\ original.elements[k].selectionStart = 1
        /\ original.elements[k].selectionEnd = 3
        /\ request.content = "hello"
        /\ elements[k].value = "ahellod"
        /\ elements[k].selectionStart = 6

\* the elements that match any of the selectors
Candidates(els) == {k \in 1..Len(els) : \E n \in 1..Len(focusableSelectors) : matches(els[k], focusableSelectors[n])}

\* the candidate picked by selector priority: the first element matching the
\* first selector that matches anything
PriorityFirst(els) ==
    LET of(n) == {k \in 1..Len(els) : matches(els[k], focusableSelectors[n])}
        best == CHOOSE n \in 1..Len(focusableSelectors) :
                    of(n) # {} /\ \A m \in 1..(n - 1) : of(m) = {}
    IN CHOOSE k \in of(best) : \A j \in of(best) : k <= j

\* the candidate that comes first in the document
DocumentFirst(els) == CHOOSE k \in Candidates(els) : \A j \in Candidates(els) : k <= j

LocateCase == original.activeElement = NoElement /\ request.content # ""

\* C7 as claimed: a request that finds no active element succeeds by inserting
\* the content into the candidate that is first by selector priority, and fails
\* without touching the page when there is no candidate.
C7_LocateBySelectorPriority ==
    (LocateCase /\ ppc = "done") =>
        IF Candidates(original.elements) = {}
        THEN ~reply.success /\ elements = original.elements
        ELSE /\ reply.success
             /\ activeElement = PriorityFirst(original.elements)
             /\ \E n \in 1..Len(insertions) : insertions[n].into = PriorityFirst(original.elements)

\* C7 amended: a request that finds no active element focuses the candidate
\* that comes first in document order, whatever the position of its selector
\* in the list, and every insertion goes into that element; when that element
\* is an input or textarea that takes the focus the request succeeds with
\* exactly one insertion into it, and no success is reported unless the
\* element took the focus; without a candidate the request is answered with
\* success:false and the generic error and the page is left as it was.
C7_LocateInDocumentOrder ==
    LocateCase =>
        IF Candidates(original.elements) = {}
        THEN /\ elements = original.elements
             /\ insertions = <<>>
             /\ activeElement = NoElement
             /\ ppc \in {"respond", "done"} => ~pasteSuccess
             /\ ppc = "done" => reply = PasteFailure(NullInfo)
        ELSE LET first == DocumentFirst(original.elements) IN
             /\ activeElement \in {NoElement, first}
             /\ locates > 0 => activeElement = focus(original.elements, NoElement, first)
             /\ \A n \in 1..Len(insertions) : insertions[n].into = first
             /\ \A k \in 1..Len(elements) : k # first => elements[k] = original.elements[k]
             /\ ppc = "done" => (reply.success => activeElement = first)
             /\ (ppc = "done" /\ isInput(original.elements[first])) =>
                    /\ reply.success
                    /\ Len(insertions) = 1
                    /\ insertions[1].by = "pasteToInput"

C7_Witness ==
    /\ LocateCase /\ ppc = "done" /\ reply.success
    /\ Len(elements) = 2
    /\ original.elements[1] = InputElement("TEXTAREA", FALSE, FALSE, TRUE, "", 0, 0)
    /\ original.elements[2] = InputElement("INPUT", FALSE, FALSE, TRUE, "", 0, 0)
    /\ activeElement = 1
    /\ elements[1].value = request.content
    /\ elements[2] = original.elements[2]

HasDangerousProtocol(a) ==
    \E p \in DANGEROUS_PROTOCOLS : startsWith(trim(toLowerCase(a.value)), p)

\* C8: when a paste of contentType html puts markup into a contentEditable
\* element, the inserted nodes are sanitize(payload): every inserted element
\* has an allowed tag, no attribute whose name starts with "on" and no href or
\* src with a deny-listed protocol; and a paste of
\* "<img src=javascript:alert(1)>" into a contentEditable element inserts an
\* img element without attributes.
C8_InsertedMarkupIsSanitized ==
    /\ \A n \in NodeInsertions :
        (request.contentType = "html" /\ contentKind(request.content, "html") = "html") =>
            /\ insertions[n].nodes = sanitize(parseHTML(request.content))
            /\ \A e \in Range(allElements(insertions[n].nodes)) :
                /\ e.tag \in ALLOWED_TAGS
                /\ ~HasAttr(e, IsHandlerAttr)
                /\ \A a \in Range(e.attrs) : a.name \in {"href", "src"} => ~HasDangerousProtocol(a)
    /\ (/\ request = PasteRequest("<img src=javascript:alert(1)>", "html")
        /\ insertions # <<>>
        /\ isContentEditable(original.elements[insertions[1].into])) =>
            \E n \in 1..Len(insertions) : insertions[n].nodes = <<Element("img", <<>>, <<>>)>>

\* C17: within one paste request pasteContent locates and focuses a candidate
\* at most once; when the page still has no active element after that, it
\* returns false instead of locating again.
C17_LocateAtMostOnce == locates <= 1

StrategyOrder == <<"execCommand", "inputEvents", "clipboard", "fallback">>

rank(strategy) == CHOOSE n \in 1..Len(StrategyOrder) : StrategyOrder[n] = strategy

\* C18: pasteToContentEditable starts its strategies in the order execCommand,
\* Input Events, Clipboard API, DOM insertion, each at most once and one at a
\* time; a strategy is entered only while no earlier one has succeeded, and
\* after a strategy has succeeded none is started.
C18_StrategiesInOrder ==
    /\ \A n \in 1..(Len(strategies) - 1) : rank(strategies[n]) < rank(strategies[n + 1])
    /\ ppc \in {"execCommand", "inputEvents", "clipboard", "fallback"} =>
            /\ ~pasteSuccess
            /\ \A n \in 1..Len(strategies) : rank(strategies[n]) < rank(ppc)
            /\ \A n \in 1..Len(insertions) : insertions[n].by = "page"
    /\ \A n \in 1..Len(insertions) :
            insertions[n].by \in {"execCommand", "inputEvents"} =>
                /\ n = Len(insertions) /\ pasteSuccess
                /\ strategies[Len(strategies)] = insertions[n].by
    /\ (pasteSuccess /\ strategies # <<>>) => ppc \in {"respond", "done"}
    /\ handler = "safe" => strategies = <<>>

C18_Witness ==
    /\ strategies = StrategyOrder
    /\ ppc = "done" /\ reply.success

\* the request found the focus on an <input> or <textarea> that is disabled or
\* read-only
ActiveIsLocked ==
    /\ original.activeElement # NoElement
    /\ LET element == original.elements[original.activeElement] IN
       isInput(element) /\ (element.disabled \/ element.readOnly)

\* C19: a paste request that finds such an element active changes neither its
\* value nor its selection, dispatches no event on it, inserts nothing
\* anywhere, and is answered with success:false.
C19_LockedInputUntouched ==
    ActiveIsLocked =>
        /\ elements = original.elements
        /\ activeElement = original.activeElement
        /\ insertions = <<>> /\ strategies = <<>> /\ locates = 0
        /\ ~pasteSuccess
        /\ ppc = "done" => (~reply.success /\ reply.error \in {PasteFailed, InvalidContent})

C19_Witness ==
    /\ ActiveIsLocked /\ ppc = "done" /\ handler = "main"
    /\ elements[activeElement].tagName = "TEXTAREA" /\ elements[activeElement].readOnly
    /\ request.content = "hello" /\ ~reply.success /\ reply.error = PasteFailed

\* the n-th insertion is one of an image data URL of more than ImageLimit code
\* units into an <input>
Oversized(n) ==
    /\ contentKind(request.content, request.contentType) = "image"
    /\ startsWith(request.content, "data:image/")
    /\ original.elements[insertions[n].into].tagName = "INPUT"
    /\ Len(request.content) > ImageLimit

\* C21 as claimed: pasteToInput of content-main.ts splices in the placeholder
\* exactly when the insertion is oversized, and the raw payload in every other
\* case.
C21_PlaceholderOrRaw ==
    \A n \in 1..Len(insertions) :
        (handler = "main" /\ insertions[n].by = "pasteToInput") =>
            insertions[n].text = IF Oversized(n) THEN ImagePlaceholder ELSE request.content

\* C21 amended: pasteToInput splices in the placeholder exactly when the type
\* is image, the content starts with data:image/, the target is an <input> and
\* the content is longer than ImageLimit; in every other case it splices in the
\* content it was given (the payload, sanitized by the handler of
\* paste-handler.ts when it is html), in which the handler of content-main.ts
\* has first replaced each line break by one space when the target is an
\* <input>.
C21_PlaceholderWhenOversized ==
    \A n \in 1..Len(insertions) :
        insertions[n].by = "pasteToInput" =>
            LET target == original.elements[insertions[n].into]
                type == contentKind(request.content, request.contentType)
                content == IF handler = "safe" /\ type = "html"
                           THEN sanitizeHTML(markupOf(request.content)).text
                           ELSE request.content
                converted == /\ handler = "main" /\ target.tagName = "INPUT"
                             /\ hasLineBreaks(content)
            IN /\ insertions[n].text = ImagePlaceholder <=> Oversized(n)
               /\ ~Oversized(n) =>
                    insertions[n].text = IF converted THEN replaceLineBreaks(content)
                                         ELSE content
               /\ elements[insertions[n].into].value =
                    newValue(target.value, target.selectionStart, target.selectionEnd,
                             insertions[n].text)

C21_Witness ==
    /\ ppc = "done" /\ reply.success
    /\ Len(request.content) = ImageLimit + 1
    /\ Len(insertions) = 1 /\ insertions[1].by = "pasteToInput"
    /\ insertions[1].text = ImagePlaceholder
    /\ elements[insertions[1].into].value = "a" \o ImagePlaceholder \o "d"

NotificationEvents ==
    <<"focus", "focusin", "beforeinput", "input", "textInput", "change", "keydown", "keyup">>

\* sub is what is left of seq when some of its elements are taken out
RECURSIVE IsSubsequence(_, _)
IsSubsequence(sub, seq) ==
    IF sub = <<>> THEN TRUE
    ELSE IF seq = <<>> THEN FALSE
    ELSE IF Head(sub) = Head(seq) THEN IsSubsequence(Tail(sub), Tail(seq))
    ELSE IsSubsequence(sub, Tail(seq))

ActiveIsNotEditable ==
    /\ original.activeElement # NoElement
    /\ LET element == original.elements[original.activeElement] IN
       ~isInput(element) /\ ~isContentEditable(element)

\* C20 as claimed: the answer to a paste request that finds such an element
\* active carries the reason not_editable.
C20_NotEditableReason ==
    (ppc = "done" /\ request.content # "" /\ ActiveIsNotEditable) =>
        ~reply.success /\ reply.reason = "not_editable"

\* C20 amended: every answer to a paste request whose pasteContent returned
\* false carries the same error text and no reason; what tells the causes apart
\* is activeElementInfo, read from the active element when the answer is built:
\* null exactly when no element is active, otherwise the element's tag with
\* type "unknown" and canPaste false exactly when the element is neither an
\* input/textarea nor contentEditable, and with the input's type or "textarea"
\* and canPaste false exactly when it is a disabled or read-only input or
\* textarea. It holds no disabled, readOnly or contentEditable flag.
C20_CauseInActiveElementInfo ==
    (ppc = "done" /\ ~reply.success /\ request.content # "") =>
        LET info == reply.activeElementInfo
            none == activeElement = NoElement
            element == elements[activeElement]
        IN /\ reply.error = PasteFailed /\ reply.reason = "" /\ ~reply.verified
           /\ DOMAIN info = {"tagName", "type", "canPaste", "selection"}
           /\ info = NullInfo <=> none
           /\ ~none => info.tagName = element.tagName
           /\ info.type = "unknown" <=>
                (~none /\ ~isInput(element) /\ ~isContentEditable(element))
           /\ (info.type \in {"text", "textarea"} /\ ~info.canPaste) <=>
                (~none /\ isInput(element) /\ (element.disabled \/ element.readOnly))
           /\ ActiveIsNotEditable =>
                /\ activeElement = original.activeElement
                /\ elements = original.elements
                /\ info = [tagName |-> "DIV", type |-> "unknown", canPaste |-> FALSE,
                           selection |-> <<>>]

C20_Witness ==
    /\ ActiveIsNotEditable /\ ppc = "done" /\ request.content = "hello"
    /\ reply = PasteFailure([tagName |-> "DIV", type |-> "unknown", canPaste |-> FALSE,
                             selection |-> <<>>])
    /\ \E k \in 1..Len(elements) :
           isInput(elements[k]) /\ ~elements[k].disabled /\ ~elements[k].readOnly

\* the value of the element's attribute of that name
attributeOf(e, name) ==
    LET hits == {k \in 1..Len(e.attrs) : e.attrs[k].name = name}
    IN IF hits = {} THEN NoAttribute
       ELSE e.attrs[CHOOSE k \in hits : \A j \in hits : k <= j].value

\* C24: every anchor that a url paste inserts into a contentEditable element
\* has an href that is "#" or has one of the protocols http:, https:, ftp:,
\* mailto:, has target _blank and rel "noopener noreferrer".
C24_AnchorsAreSafe ==
    \A n \in 1..Len(insertions) :
        contentKind(request.content, request.contentType) = "url" =>
            \A e \in Range(allElements(insertions[n].nodes)) :
                e.tag = "a" =>
                    /\ \/ attributeOf(e, "href") = "#"
                       \/ protocol(attributeOf(e, "href")) \in safeProtocols
                    /\ attributeOf(e, "target") = "_blank"
                    /\ attributeOf(e, "rel") = "noopener noreferrer"

\* what C24 says holds of the PasteHandler of paste-handler.ts
C24_SafeHandlerAnchors == handler = "safe" => C24_AnchorsAreSafe

\* ------------------------------------------------------------------------
\* Properties of the initiator together with the page
\* ------------------------------------------------------------------------
\* C23: when pasteContent returned true the executor answers success:true with
\* the verification attached, whatever it says; answering changes neither the
\* page nor what was inserted; sendMessageToTab returns as soon as it takes an
\* answer with success:true, verified or not, starts another attempt without
\* an exception only after an answer with success:false, and takes no step
\* after it has returned.
C23_VerificationIsReportedOnly ==
    /\ []((ppc = "done" /\ pasteSuccess) =>
            /\ reply.success
            /\ LET verification == verifyPasteSuccess(request.content, elements, activeElement)
               IN reply.verified = verification.verified /\ reply.reason = verification.reason)
    /\ [][ppc = "respond" =>
            /\ elements' = elements /\ insertions' = insertions
            /\ activeElement' = activeElement]_vars
    /\ [][(pc = "await" /\ pc' = "returned") => (firstAnswer.success /\ response' = "success")]_vars
    /\ [][(pc = "await" /\ pc' = "loop") => ~firstAnswer.success]_vars
    /\ [][pc = "returned" =>
            /\ pc' = "returned" /\ log' = log
            /\ elements' = elements /\ insertions' = insertions /\ inserted' = inserted]_vars

C23_Witness ==
    /\ pc = "returned" /\ i = 0 /\ listeners = 1
    /\ reply.success /\ ~reply.verified /\ reply.reason = "content_not_found"
    /\ Len(insertions) = 1 /\ inserted = 0
    /\ request.content = "line1\nline2" /\ elements[1].value = "line1 line2"

\* the insertions made in the page since sendMessageToTab was called
TotalInsertions == inserted + Len(insertions)

\* C26: as long as one executor listens in the page, one call of
\* sendMessageToTab puts the content into the page at most once, whatever the
\* number of attempts.
C26_InsertedAtMostOnce == listeners <= 1 => TotalInsertions <= 1

\* C27: at most one executor listens in the page.
C27_AtMostOneListener == listeners <= 1

\* ------------------------------------------------------------------------
\* Properties of the Popup
\* ------------------------------------------------------------------------
countFavorites(list) == Cardinality({k \in 1..Len(list) : list[k].isFavorite})

\* C12: whatever the Popup has done since it was mounted over an empty
\* collection, at most one stored item (and at most one item of the Popup's
\* list) is favorite; after handleToggleFavorite(id) no item other than id is
\* favorite in the list the handler computed, which is the stored list once the
\* save went through.
C12_AtMostOneFavorite ==
    /\ countFavorites(storedItems) <= 1
    /\ countFavorites(popupItems) <= 1
    /\ lastOp.name = "toggle" =>
        /\ favorites(popupItems) \subseteq {lastOp.id}
        /\ lastOp.saved => storedItems = popupItems

C12_Witness ==
    /\ lastOp.name = "toggle" /\ lastOp.saved
    /\ \E other \in lastOp.before : other # lastOp.id /\ other \in itemIds(storedItems)
    /\ favorites(storedItems) = {lastOp.id}
    /\ Len(storedItems) = 2

\* C25: a deleteFolder(id) that read both keys and saved both leaves neither
\* id nor any folder inside it in the stored tree, and no stored item refers to
\* one of the folders it removed.
C25_DeleteFolderCascades ==
    [][\A id \in folderIds(storedFolders) :
        (/\ lastOp'.name = "deleteFolder" /\ lastOp'.id = id /\ lastOp'.saved
         /\ storedFolders' = removeFolder(storedFolders, id)
         /\ storedItems' = filter(storedItems, LAMBDA item : item.folderId # id)) =>
            LET removed == folderIds(storedFolders) \ folderIds(storedFolders')
            IN /\ id \in removed
               /\ \A k \in 1..Len(storedItems') : storedItems'[k].folderId \notin removed]_vars

\* the part of C25 about the folders: they are gone, with all folders inside
C25_FoldersAreRemoved ==
    [][\A id \in folderIds(storedFolders) :
        (/\ lastOp'.name = "deleteFolder" /\ lastOp'.id = id /\ lastOp'.saved
         /\ storedFolders' = removeFolder(storedFolders, id)) =>
            /\ id \notin folderIds(storedFolders')
            /\ \A k \in 1..Len(storedItems') : storedItems'[k].folderId # id]_vars

\* C29: an addClipboardItem or deleteClipboardItem that saved leaves every item
\* that was stored before it in storage, except the item it deleted and the
\* items beyond the cap.
C29_FailedReadKeepsItems ==
    [][(lastOp'.name \in {"create", "delete"} /\ lastOp'.saved) =>
        \A k \in 1..Min(Len(storedItems), KeptItems) :
            (lastOp'.name = "delete" /\ storedItems[k].id = lastOp'.id)
                \/ storedItems[k].id \in itemIds(storedItems')]_vars

\* C30: the folder a createFolder call returned is in the stored tree.
C30_CreatedFolderIsStored ==
    (lastOp.name = "createFolder" /\ lastOp.saved) => lastOp.id \in folderIds(storedFolders)

\* ------------------------------------------------------------------------
\* Properties of overlapping calls of ClipboardStorage
\* ------------------------------------------------------------------------
\* C28: once the calls that overlapped have returned, and no read failed, the
\* stored items are exactly the items the returned calls added and did not
\* delete: no update is lost.
C28_NoLostUpdate ==
    ((\A c \in Calls : callPc[c] = "idle") /\ ~effects.failedRead) =>
        itemIds(storedItems) = effects.added \ effects.deleted

\* calls that do not overlap lose nothing
C28_SequentialCallsKeepUpdates ==
    [][\A c \in Calls :
        (/\ callPc[c] = "saving" /\ callPc'[c] = "idle"
         /\ callItems[c] = storedItems
         /\ itemIds(storedItems) = effects.added \ effects.deleted) =>
            itemIds(storedItems') = effects'.added \ effects'.deleted]_vars

\* ------------------------------------------------------------------------
\* Properties of the content detectors
\* ------------------------------------------------------------------------
\* the host of a URL that starts with scheme://, as far as the first / ? or #
\* and without a port
RECURSIVE hostOf(_)
hostOf(rest) ==
    IF rest = "" \/ SubSeq(rest, 1, 1) \in {"/", "?", "#", ":"} THEN ""
    ELSE SubSeq(rest, 1, 1) \o hostOf(SubSeq(rest, 2, Len(rest)))

\* new URL(content) succeeds for an http, https or ftp URL: the host is not
\* empty and holds no forbidden code point
parsesAsUrl(content) ==
    LET url == trim(content)
        host == hostOf(SubSeq(url, schemeEnd(url) + 3, Len(url)))
    IN /\ schemeEnd(url) # 0
       /\ host # ""
       /\ \A k \in 1..Len(host) : SubSeq(host, k, k) \notin {" ", "<", ">"}

\* the rules of the specification, in their order of precedence
detectionRules(content) ==
    LET trimmed == trim(content) IN
    IF startsWith(trimmed, "data:image/") THEN "image"
    ELSE IF /\ \/ startsWith(trimmed, "http://")
               \/ startsWith(trimmed, "https://")
               \/ startsWith(trimmed, "ftp://")
            /\ parsesAsUrl(trimmed)
    THEN "url"
    ELSE IF /\ includes(trimmed, "<")
            /\ includes(trimmed, ">")
            /\ \/ includes(trimmed, "</")
               \/ startsWith(trimmed, "<html")
               \/ startsWith(trimmed, "<!DOCTYPE")
    THEN "html"
    ELSE "text"

\* C13: every detector returns, for every content, the type the rules give:
\* image for a data:image/ prefix, else url for an http://, https:// or ftp://
\* prefix that parses as a URL, else html for content with < and > and either
\* </ or a leading <html or <!DOCTYPE, else text.
C13_DetectorsFollowRules == detectedType # "none" => detectedType = detectionRules(typed)

====
